---- MODULE Spec2Model ----
(***************************************************************************)
(* Model of djherbis/bufit: a shared byte buffer (Buffer) over a growable  *)
(* ring store (writer), with per-reader snapshots, a min-heap of reader    *)
(* offsets that drives eviction, and two condition variables.              *)
(*                                                                         *)
(* Go slices are modelled as TLA+ sequences; a 0-based Go index i is the   *)
(* TLA+ index i+1.  Backing arrays live in the variable mem so that the    *)
(* store and the snapshots taken from it share storage as they do in Go.   *)
(***************************************************************************)
EXTENDS Integers, Sequences, FiniteSets, TLC

\* ------------------------------------------------------------------ bounds
NumReaders == 2
NumWriters == 2
MaxBytes == 2
MaxReadLen == 2
MaxCap == 1
LiveBytes == 1
\* bytes that the writers of SpecInterleave hand to Write in all
InterleaveBytes == 3
\* bytes written to the store of SpecStore in all
StoreBytes == 3
\* the largest s of a Discard(s) on that store
MaxDiscard == 2
\* bytes written to the store of SpecQueue in all
QueueBytes == 4
\* capacity of the buffer of SpecWrap and the bytes its writer writes in all
WrapCap == 2
WrapBytes == 4

Readers == 1..NumReaders
Writers == 1..NumWriters

\* error values of a call
NoErr == "nil"
EOF == "EOF"
ErrClosedPipe == "ErrClosedPipe"

Min(a, b) == IF a < b THEN a ELSE b

\* =====================================================================
\* The ring store (type writer).  A ring value is a record
\*   [empty, off, roff, data] where data names a backing array in mem.
\* =====================================================================

\* make([]byte, 0, c) followed by p[0:cap(p)]: a zeroed array of c cells
MakeArray(c) == [i \in 1..c |-> 0]

\* newWriter(p) for an empty p of capacity Len(m[a])
newWriter(a) == [empty |-> TRUE, off |-> 0, roff |-> 0, data |-> a]

\* split(a, b, p): the two index runs p[a:b], nil  or  p[a:], p[0:b],
\* as sequences of 0-based cell indices of an array of n cells
split(a, b, n) ==
  IF a < b
    THEN <<[i \in 1..(b - a) |-> a + i - 1], <<>>>>
    ELSE <<[i \in 1..(n - a) |-> a + i - 1], [i \in 1..b |-> i - 1]>>

RingCap(w, m) == Len(m[w.data])

\* a Len that takes read index = write index for the empty ring
RingLenNoFull(w, m) ==
  IF w.empty THEN 0
  ELSE IF w.roff <= w.off THEN w.off - w.roff
  ELSE Len(m[w.data]) - w.roff + w.off

RingLen(w, m) ==
  IF w.empty THEN 0
  ELSE IF w.roff < w.off THEN w.off - w.roff
  ELSE Len(m[w.data]) - w.roff + w.off

\* Discard divides by cap(buf.data): a positive discard on a zero-capacity
\* ring is a run-time panic
RingDiscardPanics(w, m, s) == s > 0 /\ RingCap(w, m) = 0

\* Discard has no bounds check: s is outside what the ring holds
RingDiscardOver(w, m, s) == s < 0 \/ s > RingLen(w, m)

\* Discard(s): result [w, n, err]
RingDiscard(w, m, s) ==
  IF s > 0 /\ RingCap(w, m) > 0
    THEN LET nr == (w.roff + s) % RingCap(w, m)
         IN  IF nr = w.off
               THEN [w |-> [w EXCEPT !.roff = nr, !.empty = TRUE], n |-> s, err |-> EOF]
               ELSE [w |-> [w EXCEPT !.roff = nr], n |-> s, err |-> NoErr]
    ELSE [w |-> w, n |-> s, err |-> NoErr]

\* copy(dst, p) where dst is a run of cell indices of array a: the array after
CopyInto(arr, idx, p) ==
  LET n == Min(Len(idx), Len(p))
  IN  [c \in 1..Len(arr) |->
         IF \E k \in 1..n : idx[k] + 1 = c
           THEN p[CHOOSE k \in 1..n : idx[k] + 1 = c]
           ELSE arr[c]]

\* the bytes held by a run of cell indices
Cells(arr, idx) == [k \in 1..Len(idx) |-> arr[idx[k] + 1]]

RECURSIVE RingWrite(_, _, _)
\* a grow that enlarges the backing array where it is, under the snapshots
\* that share it
RingGrowInPlace(w, m, s) ==
  LET c == RingCap(w, m)
      l == RingLen(w, m)
  IN  IF c - l >= s THEN [w |-> w, m |-> m]
      ELSE LET m0 == [m EXCEPT ![w.data] = MakeArray(c * 2 + s)]
               next == newWriter(w.data)
           IN  IF w.empty THEN [w |-> next, m |-> m0]
               ELSE LET ab == split(w.roff, w.off, c)
                        r1 == RingWrite(next, m0, Cells(m[w.data], ab[1]))
                        r2 == RingWrite(r1.w, r1.m, Cells(m[w.data], ab[2]))
                    IN  [w |-> r2.w, m |-> r2.m]

\* grow(s): result [w, m]
RingGrow(w, m, s) ==
  LET c == RingCap(w, m)
      l == RingLen(w, m)
  IN  IF c - l >= s THEN [w |-> w, m |-> m]
      ELSE LET m0 == Append(m, MakeArray(c * 2 + s))
               next == newWriter(Len(m0))
           IN  IF w.empty THEN [w |-> next, m |-> m0]
               ELSE LET ab == split(w.roff, w.off, c)
                        r1 == RingWrite(next, m0, Cells(m[w.data], ab[1]))
                        r2 == RingWrite(r1.w, r1.m, Cells(m[w.data], ab[2]))
                    IN  [w |-> r2.w, m |-> r2.m]

\* Write(p): result [w, m, n]
RingWrite(w, m, p) ==
  LET g == RingGrow(w, m, Len(p))
      gw == g.w
      c == RingCap(gw, g.m)
      ab == split(gw.off, gw.roff, c)
      n1 == Min(Len(ab[1]), Len(p))
      arr1 == CopyInto(g.m[gw.data], ab[1], p)
      n2 == IF n1 < Len(p) THEN Min(Len(ab[2]), Len(p) - n1) ELSE 0
      arr2 == IF n1 < Len(p)
                THEN CopyInto(arr1, ab[2], SubSeq(p, n1 + 1, Len(p)))
                ELSE arr1
      n == n1 + n2
  IN  [w |-> [gw EXCEPT !.empty = IF n > 0 THEN FALSE ELSE gw.empty,
                        !.off = IF c > 0 THEN (gw.off + n) % c ELSE gw.off],
       m |-> [g.m EXCEPT ![gw.data] = arr2],
       n |-> n]

\* Read(p) with len(p) = k: result [w, bytes, n, err]
RingRead(w, m, k) ==
  IF w.empty THEN [w |-> w, bytes |-> <<>>, n |-> 0, err |-> EOF]
  ELSE LET ab == split(w.roff, w.off, RingCap(w, m))
           all == Cells(m[w.data], ab[1]) \o Cells(m[w.data], ab[2])
           n == Min(k, Len(all))
           d == RingDiscard(w, m, n)
       IN  [w |-> d.w, bytes |-> SubSeq(all, 1, n), n |-> d.n, err |-> d.err]

\* NextReader(): value receiver, the snapshot is a copy of the struct that
\* shares the backing array
RingNextReader(w) == w

\* the bytes a ring currently holds, oldest first
RingBytes(w, m) ==
  IF w.empty THEN <<>>
  ELSE LET ab == split(w.roff, w.off, RingCap(w, m))
       IN  Cells(m[w.data], ab[1]) \o Cells(m[w.data], ab[2])

\* =====================================================================
\* The reader heap (type readerHeap) driven by container/heap.
\* A heap value is [rh, ri]: rh the slice of readers, ri[r] the index
\* field r.i; off[r] is the key r.off.
\* =====================================================================

HeapLen(h) == Len(h.rh)

\* a Less that orders the readers by the greatest offset first
HeapLessRev(h, off, i, j) == off[h.rh[i + 1]] > off[h.rh[j + 1]]

\* Less(i, j)
HeapLess(h, off, i, j) == off[h.rh[i + 1]] < off[h.rh[j + 1]]

\* a Swap that exchanges the slots and leaves the index fields as they were
HeapSwapNoIndex(h, i, j) ==
  LET a == h.rh[i + 1]
      b == h.rh[j + 1]
  IN  [rh |-> [h.rh EXCEPT ![i + 1] = b, ![j + 1] = a], ri |-> h.ri]

\* Swap(i, j): exchanges the slots and stores each reader's new index
HeapSwap(h, i, j) ==
  LET a == h.rh[i + 1]
      b == h.rh[j + 1]
  IN  [rh |-> [h.rh EXCEPT ![i + 1] = b, ![j + 1] = a],
       ri |-> [[h.ri EXCEPT ![b] = i] EXCEPT ![a] = j]]

\* readerHeap.Push(x): r.i = len(h); append
HeapAppend(h, r) == [rh |-> Append(h.rh, r), ri |-> [h.ri EXCEPT ![r] = Len(h.rh)]]

\* a Pop that leaves the slice as long as it was
HeapPopLastKeep(h) == h

\* readerHeap.Pop(): drops the last slot (the index field is left as is)
HeapPopLast(h) == [rh |-> SubSeq(h.rh, 1, Len(h.rh) - 1), ri |-> h.ri]

\* a Peek that takes the last slot instead of the root
HeapPeekLast(h) == h.rh[Len(h.rh)]

\* readerHeap.Peek()
HeapPeek(h) == h.rh[1]

RECURSIVE HeapUp(_, _, _)
\* container/heap up(j)
HeapUp(h, off, j) ==
  LET i == IF j = 0 THEN 0 ELSE (j - 1) \div 2
  IN  IF i = j \/ ~HeapLess(h, off, j, i) THEN h
      ELSE HeapUp(HeapSwap(h, i, j), off, i)

RECURSIVE HeapDown(_, _, _, _)
\* container/heap down(i, n): result [h, i], i the final position
HeapDown(h, off, i, n) ==
  LET j1 == 2 * i + 1
  IN  IF j1 >= n THEN [h |-> h, i |-> i]
      ELSE LET j == IF j1 + 1 < n /\ HeapLess(h, off, j1 + 1, j1) THEN j1 + 1 ELSE j1
           IN  IF ~HeapLess(h, off, j, i) THEN [h |-> h, i |-> i]
               ELSE HeapDown(HeapSwap(h, i, j), off, j, n)

\* heap.Fix(h, i)
HeapFix(h, off, i) ==
  LET d == HeapDown(h, off, i, HeapLen(h))
  IN  IF d.i > i THEN d.h ELSE HeapUp(d.h, off, i)

\* heap.Push(h, x)
HeapPush(h, off, r) ==
  LET a == HeapAppend(h, r)
  IN  HeapUp(a, off, HeapLen(a) - 1)

\* heap.Remove(h, i)
HeapRemove(h, off, i) ==
  LET n == HeapLen(h) - 1
  IN  IF n # i
        THEN LET s == HeapSwap(h, i, n)
                 d == HeapDown(s, off, i, n)
             IN  HeapPopLast(IF d.i > i THEN d.h ELSE HeapUp(d.h, off, i))
        ELSE HeapPopLast(h)


\* =====================================================================
\* The Buffer, its readers and the goroutines that use them
\* =====================================================================
VARIABLES
  mem,       \* the backing arrays that were allocated, by name
  buf,       \* b.buf, the store
  boff,      \* b.off
  bcap,      \* b.cap
  bstate,    \* b.life.state
  heap,      \* b.rh and the index field r.i of every reader
  callback,  \* b.callback: "nil" or the registered function
  rwait,     \* readers parked in b.rwait.Wait()
  wwait,     \* writers parked in b.wwait.Wait()
  panicked,  \* a run-time panic happened
  kind,      \* how reader r was made: "none", "next" or "now"
  roff,      \* r.off
  rsize,     \* r.size
  rdata,     \* r.data, the snapshot
  rstate,    \* r.life.state
  rpc,       \* where the goroutine calling r.Read is
  rphase,    \* 1 in Read's first fetch, 2 in the fetch after end-of-data
  rn,        \* n of the Read in progress
  rret,      \* the err the last Read returned
  got,       \* history: every byte Read has put into p, in order
  rlate,     \* history: a Read that began after r.Close() had returned found cached bytes
  cpc,       \* where the goroutine calling r.Close is
  cbdefer,   \* drop deferred the callback for this Close
  wpc,       \* where the goroutine calling Write is
  wp,        \* p of the Write in progress
  wn,        \* n of the Write in progress
  wret,      \* what the last Write returned
  kpc,       \* where the goroutine calling Buffer.Close is
  stream,    \* history: every byte appended to the store, in order
  nsub,      \* history: bytes handed to Write so far
  quota,     \* the bytes the writers will hand to Write in all
  join,      \* history: what reader r found when it was made
  mu,        \* b.mu: the readers whose drop holds it between two steps, {} if free
  ncb,       \* history: how many times the registered callback was invoked
  c2pc,      \* where the goroutine calling r.Close a second time is
  kept,      \* history: every Discard on the store so far dropped only retained
             \* bytes that every snapshot taken had read
  dret,      \* history: the last Discard(s) on the store: s, what it returned,
             \* Len() before and after
  inb,       \* history: no Discard(s) on the store so far had s > Len()
  sread,     \* history: the last Read(p) on the store: len(p), what it returned
             \* and put into p; tick tells one Read from the next
  nzread     \* history: no Read of a reader so far returned (0, nil)

vars == <<mem, buf, boff, bcap, bstate, heap, callback, rwait, wwait,
          panicked, kind, roff, rsize, rdata, rstate, rpc, rphase, rn,
          rret, got, rlate, cpc, cbdefer, wpc, wp, wn, wret, kpc, stream,
          nsub, quota, join, mu, ncb, c2pc, kept, dret,
                 inb, sread, nzread>>

bufVars == <<mem, buf, boff, bcap, bstate, heap, callback>>
readerVars == <<kind, roff, rsize, rdata, rstate>>
readVars == <<rpc, rphase, rn, rret, got>>
closeVars == <<cpc, cbdefer>>
writeVars == <<wpc, wp, wn, wret, nsub, quota>>
auxVars == <<mu, ncb, c2pc, kept, dret, inb, sread, nzread>>
auxButInb == <<mu, ncb, c2pc, kept, dret, sread, nzread>>
auxRead == <<mu, ncb, c2pc, kept, dret, sread>>

NoRet == [n |-> -1, err |-> "none"]

\* life.alive()
Alive(st) == st = 0

\* NewCappedBuffer(newWriter(nil), cap): New() is cap = 0
InitBuffer(c) ==
  /\ mem = <<MakeArray(0)>>
  /\ buf = newWriter(1)
  /\ boff = 0
  /\ bcap = c
  /\ bstate = 0
  /\ heap = [rh |-> <<>>, ri |-> [r \in Readers |-> 0]]
  /\ callback = "nil"
  /\ rwait = {}
  /\ wwait = {}
  /\ panicked = FALSE

\* ws: the writers whose goroutine is started
InitThreads(ws) ==
  /\ kind = [r \in Readers |-> "none"]
  /\ roff = [r \in Readers |-> 0]
  /\ rsize = [r \in Readers |-> 0]
  /\ rdata = [r \in Readers |-> newWriter(1)]
  /\ rstate = [r \in Readers |-> 0]
  /\ rpc = [r \in Readers |-> "idle"]
  /\ rphase = [r \in Readers |-> 0]
  /\ rn = [r \in Readers |-> 0]
  /\ rret = [r \in Readers |-> "none"]
  /\ got = [r \in Readers |-> <<>>]
  /\ rlate = [r \in Readers |-> FALSE]
  /\ cpc = [r \in Readers |-> "idle"]
  /\ cbdefer = [r \in Readers |-> FALSE]
  /\ wpc = [w \in Writers |-> IF w \in ws THEN "idle" ELSE "off"]
  /\ wp = [w \in Writers |-> <<>>]
  /\ wn = [w \in Writers |-> 0]
  /\ wret = [w \in Writers |-> NoRet]
  /\ kpc = "idle"
  /\ stream = <<>>
  /\ nsub = 0
  /\ join = [r \in Readers |-> [retained |-> <<>>, written |-> 0]]
  /\ mu = {}
  /\ ncb = 0
  /\ c2pc = [r \in Readers |-> "idle"]
  /\ kept = TRUE
  /\ dret = [s |-> 0, n |-> 0, err |-> NoErr, before |-> 0, after |-> 0]
  /\ inb = TRUE
  /\ sread = [k |-> 0, n |-> 0, err |-> NoErr, bytes |-> <<>>, tick |-> FALSE]
  /\ nzread = TRUE

\* New(): no capacity bound, one writing goroutine
Init == InitBuffer(0) /\ InitThreads({1}) /\ quota = MaxBytes

\* NewCapped(c), one writing goroutine
InitCapped ==
  (\E c \in 1..MaxCap : InitBuffer(c)) /\ InitThreads({1}) /\ quota = MaxBytes

\* NewCapped(c), every writer writing
InitWriters ==
  (\E c \in 1..MaxCap : InitBuffer(c)) /\ InitThreads(Writers) /\ quota = MaxBytes

\* NewCapped(c), every writer writing, InterleaveBytes to write in all
InitInterleave ==
  (\E c \in 1..MaxCap : InitBuffer(c)) /\ InitThreads(Writers)
    /\ quota = InterleaveBytes

\* newWriter(nil) used on its own, by one goroutine: no Buffer around it
InitStore == InitBuffer(0) /\ InitThreads({}) /\ quota = StoreBytes

\* the same, with QueueBytes to write
InitQueue == InitBuffer(0) /\ InitThreads({}) /\ quota = QueueBytes

\* NewCapped(WrapCap), one writing goroutine with WrapBytes to write
InitWrap == InitBuffer(WrapCap) /\ InitThreads({1}) /\ quota = WrapBytes

\* New(), one writing goroutine with LiveBytes to write
InitLive == InitBuffer(0) /\ InitThreads({1}) /\ quota = LiveBytes

\* ---------------------------------------------------------------- shift
\* a shift that discards every byte of the store, read by all or not
ShiftAll(h, off, b, m, bo) ==
  IF HeapLen(h) = 0 THEN [buf |-> b, boff |-> bo, woke |-> FALSE, panic |-> FALSE,
                   over |-> FALSE]
  ELSE LET diff == RingLen(b, m)
       IN  IF diff > 0
             THEN [buf |-> RingDiscard(b, m, diff).w, boff |-> bo + diff,
                   woke |-> TRUE, panic |-> RingDiscardPanics(b, m, diff),
                   over |-> RingDiscardOver(b, m, diff)]
             ELSE [buf |-> b, boff |-> bo, woke |-> FALSE, panic |-> FALSE,
                   over |-> FALSE]

\* a shift without b.wwait.Broadcast()
ShiftQuiet(h, off, b, m, bo) ==
  IF HeapLen(h) = 0 THEN [buf |-> b, boff |-> bo, woke |-> FALSE, panic |-> FALSE,
                   over |-> FALSE]
  ELSE LET diff == off[HeapPeek(h)] - bo
       IN  IF diff > 0
             THEN [buf |-> RingDiscard(b, m, diff).w, boff |-> bo + diff,
                   woke |-> FALSE, panic |-> RingDiscardPanics(b, m, diff),
                   over |-> RingDiscardOver(b, m, diff)]
             ELSE [buf |-> b, boff |-> bo, woke |-> FALSE, panic |-> FALSE,
                   over |-> FALSE]

\* a shift that discards up to the reader at the end of the heap slice
ShiftToLast(h, off, b, m, bo) ==
  IF HeapLen(h) = 0 THEN [buf |-> b, boff |-> bo, woke |-> FALSE, panic |-> FALSE,
                   over |-> FALSE]
  ELSE LET diff == off[HeapPeekLast(h)] - bo
       IN  IF diff > 0
             THEN [buf |-> RingDiscard(b, m, diff).w, boff |-> bo + diff,
                   woke |-> TRUE, panic |-> RingDiscardPanics(b, m, diff),
                   over |-> RingDiscardOver(b, m, diff)]
             ELSE [buf |-> b, boff |-> bo, woke |-> FALSE, panic |-> FALSE,
                   over |-> FALSE]

\* shift(): result [buf, boff, woke, panic, over]; woke when
\* b.wwait.Broadcast ran, over when its Discard was out of bounds
Shift(h, off, b, m, bo) ==
  IF HeapLen(h) = 0 THEN [buf |-> b, boff |-> bo, woke |-> FALSE, panic |-> FALSE,
                   over |-> FALSE]
  ELSE LET diff == off[HeapPeek(h)] - bo
       IN  IF diff > 0
             THEN [buf |-> RingDiscard(b, m, diff).w, boff |-> bo + diff,
                   woke |-> TRUE, panic |-> RingDiscardPanics(b, m, diff),
                   over |-> RingDiscardOver(b, m, diff)]
             ELSE [buf |-> b, boff |-> bo, woke |-> FALSE, panic |-> FALSE,
                   over |-> FALSE]

\* ------------------------------------------------------- reader creation
\* readers are handed out in the order 1, 2, ...
NextSlot(r) == kind[r] = "none" /\ \A q \in Readers : q < r => kind[q] # "none"

\* a NextReader that starts the reader at offset 0 instead of b.off
NextReaderFromZero(r) ==
  /\ mu = {}
  /\ UNCHANGED auxVars
  /\ ~panicked /\ NextSlot(r)
  /\ kind' = [kind EXCEPT ![r] = "next"]
  /\ rsize' = [rsize EXCEPT ![r] = RingLen(buf, mem)]
  /\ roff' = [roff EXCEPT ![r] = 0]
  /\ rdata' = [rdata EXCEPT ![r] = RingNextReader(buf)]
  /\ heap' = HeapPush(heap, roff', r)
  /\ join' = [join EXCEPT ![r] = [retained |-> RingBytes(buf, mem),
                                  written |-> Len(stream)]]
  /\ UNCHANGED <<mem, buf, boff, bcap, bstate, callback, rwait, wwait,
                 panicked, rstate, readVars, rlate, closeVars, writeVars, kpc, stream>>

\* Buffer.NextReader()
NextReader(r) ==
  /\ mu = {}
  /\ UNCHANGED auxVars
  /\ ~panicked /\ NextSlot(r)
  /\ kind' = [kind EXCEPT ![r] = "next"]
  /\ rsize' = [rsize EXCEPT ![r] = RingLen(buf, mem)]
  /\ roff' = [roff EXCEPT ![r] = boff]
  /\ rdata' = [rdata EXCEPT ![r] = RingNextReader(buf)]
  /\ heap' = HeapPush(heap, roff', r)
  /\ join' = [join EXCEPT ![r] = [retained |-> RingBytes(buf, mem),
                                  written |-> Len(stream)]]
  /\ UNCHANGED <<mem, buf, boff, bcap, bstate, callback, rwait, wwait,
                 panicked, rstate, readVars, rlate, closeVars, writeVars, kpc, stream>>

\* a NextReaderFromNow that leaves the retained bytes in the snapshot
NextReaderFromNowKeep(r) ==
  /\ mu = {}
  /\ UNCHANGED auxVars
  /\ ~panicked /\ NextSlot(r)
  /\ kind' = [kind EXCEPT ![r] = "now"]
  /\ roff' = [roff EXCEPT ![r] = boff + RingLen(buf, mem)]
  /\ rdata' = [rdata EXCEPT ![r] = RingNextReader(buf)]
  /\ heap' = HeapPush(heap, roff', r)
  /\ join' = [join EXCEPT ![r] = [retained |-> RingBytes(buf, mem),
                                  written |-> Len(stream)]]
  /\ UNCHANGED <<mem, buf, boff, bcap, bstate, callback, rwait, wwait, panicked,
                 rsize, rstate, readVars, rlate, closeVars, writeVars, kpc, stream>>

\* Buffer.NextReaderFromNow()
NextReaderFromNow(r) ==
  /\ mu = {}
  /\ UNCHANGED auxButInb
  /\ ~panicked /\ NextSlot(r)
  /\ LET l == RingLen(buf, mem)
         d == RingDiscard(RingNextReader(buf), mem, l)
     IN  /\ kind' = [kind EXCEPT ![r] = "now"]
         /\ roff' = [roff EXCEPT ![r] = boff + l]
         /\ rdata' = [rdata EXCEPT ![r] = d.w]
         /\ panicked' = RingDiscardPanics(buf, mem, l)
         /\ inb' = (inb /\ ~RingDiscardOver(buf, mem, l))
  /\ heap' = HeapPush(heap, roff', r)
  /\ join' = [join EXCEPT ![r] = [retained |-> RingBytes(buf, mem),
                                  written |-> Len(stream)]]
  /\ UNCHANGED <<mem, buf, boff, bcap, bstate, callback, rwait, wwait,
                 rsize, rstate, readVars, rlate, closeVars, writeVars, kpc, stream>>


\* ------------------------------------------------------------ reader.Read
\* Read returns (n, err) to its caller
ReturnRead(r, n, err) ==
  /\ rpc' = [rpc EXCEPT ![r] = "idle"]
  /\ rret' = [rret EXCEPT ![r] = err]
  /\ nzread' = (nzread /\ ~(n = 0 /\ err = NoErr))
  /\ rphase' = [rphase EXCEPT ![r] = 0]
  /\ rn' = [rn EXCEPT ![r] = 0]

\* fetch returned to Read: the first fetch is followed by r.data.Read(p);
\* after the second one Read keeps io.EOF unless the new snapshot has bytes
AfterFetch(r, ph, d) ==
  IF ph = 1
    THEN /\ rpc' = [rpc EXCEPT ![r] = "rd"]
         /\ rphase' = [rphase EXCEPT ![r] = 0]
         /\ UNCHANGED <<rret, rn, nzread>>
    ELSE ReturnRead(r, rn[r], IF RingLen(d, mem) > 0 THEN NoErr ELSE EOF)

\* a fetch without the wait loop: it takes the snapshot at once, bytes or not
FetchTailNoWait(r, ph, off1, sz, b1, bo, alive) ==
  IF ~alive
    THEN /\ AfterFetch(r, ph, rdata[r])
         /\ rsize' = [rsize EXCEPT ![r] = sz]
         /\ UNCHANGED <<rwait, rdata>>
    ELSE LET d == RingDiscard(RingNextReader(b1), mem, off1[r] - bo)
         IN  /\ rdata' = [rdata EXCEPT ![r] = d.w]
             /\ rsize' = [rsize EXCEPT ![r] = RingLen(d.w, mem)]
             /\ AfterFetch(r, ph, d.w)
             /\ UNCHANGED rwait

\* a wait loop that also waits while r is ahead of the discard offset, that
\* is, until the slowest reader has caught up
FetchTailLockstep(r, ph, off1, sz, b1, bo, alive) ==
  IF (off1[r] = bo + RingLen(b1, mem) \/ off1[r] > bo) /\ Alive(bstate) /\ alive
    THEN /\ rwait' = rwait \cup {r}
         /\ rpc' = [rpc EXCEPT ![r] = "fw"]
         /\ rphase' = [rphase EXCEPT ![r] = ph]
         /\ rsize' = [rsize EXCEPT ![r] = sz]
         /\ UNCHANGED <<rdata, rret, rn, nzread>>
    ELSE IF ~alive
      THEN /\ AfterFetch(r, ph, rdata[r])
           /\ rsize' = [rsize EXCEPT ![r] = sz]
           /\ UNCHANGED <<rwait, rdata>>
      ELSE LET d == RingDiscard(RingNextReader(b1), mem, off1[r] - bo)
           IN  /\ rdata' = [rdata EXCEPT ![r] = d.w]
               /\ rsize' = [rsize EXCEPT ![r] = RingLen(d.w, mem)]
               /\ AfterFetch(r, ph, d.w)
               /\ UNCHANGED rwait

\* fetch from its wait loop to its end, b.mu held, on the values fetch has
\* computed so far: sz is r.size, b1 the store, bo b.off, alive what
\* r.alive() answers from here on
FetchTail(r, ph, off1, sz, b1, bo, alive) ==
  IF off1[r] = bo + RingLen(b1, mem) /\ Alive(bstate) /\ alive
    THEN \* b.rwait.Wait(): park and release b.mu
         /\ rwait' = rwait \cup {r}
         /\ rpc' = [rpc EXCEPT ![r] = "fw"]
         /\ rphase' = [rphase EXCEPT ![r] = ph]
         /\ rsize' = [rsize EXCEPT ![r] = sz]
         /\ UNCHANGED <<rdata, rret, rn, nzread>>
    ELSE IF ~alive
      THEN /\ AfterFetch(r, ph, rdata[r])
           /\ rsize' = [rsize EXCEPT ![r] = sz]
           /\ UNCHANGED <<rwait, rdata>>
      ELSE LET d == RingDiscard(RingNextReader(b1), mem, off1[r] - bo)
           IN  /\ rdata' = [rdata EXCEPT ![r] = d.w]
               /\ rsize' = [rsize EXCEPT ![r] = RingLen(d.w, mem)]
               /\ AfterFetch(r, ph, d.w)
               /\ UNCHANGED rwait

\* the Discard of fetch divides by zero
FetchTailPanics(r, off1, b1, bo, alive) ==
  /\ ~(off1[r] = bo + RingLen(b1, mem) /\ Alive(bstate) /\ alive)
  /\ alive
  /\ RingDiscardPanics(b1, mem, off1[r] - bo)

\* the Discard of fetch is out of bounds
FetchTailOver(r, off1, b1, bo, alive) ==
  /\ ~(off1[r] = bo + RingLen(b1, mem) /\ Alive(bstate) /\ alive)
  /\ alive
  /\ RingDiscardOver(b1, mem, off1[r] - bo)

\* a fetch that moves r.off and leaves out b.shift()
FetchNoShift(r, ph, kill) ==
  LET alive0 == Alive(rstate[r])
      off1 == IF alive0 THEN [roff EXCEPT ![r] = roff[r] + rsize[r]] ELSE roff
      sz == IF alive0 THEN 0 ELSE rsize[r]
      h1 == IF alive0 THEN HeapFix(heap, off1, heap.ri[r]) ELSE heap
  IN  /\ ~panicked
      /\ kill => alive0 /\ cpc[r] = "idle"
      /\ roff' = off1
      /\ heap' = h1
      /\ rstate' = IF kill THEN [rstate EXCEPT ![r] = @ + 1] ELSE rstate
      /\ cpc' = IF kill THEN [cpc EXCEPT ![r] = "drop"] ELSE cpc
      /\ FetchTail(r, ph, off1, sz, buf, boff, alive0 /\ ~kill)
      /\ panicked' = FetchTailPanics(r, off1, buf, boff, alive0 /\ ~kill)
      /\ inb' = (inb /\ ~FetchTailOver(r, off1, buf, boff, alive0 /\ ~kill))
      /\ UNCHANGED <<mem, buf, boff, wwait, bcap, bstate, callback, kind, got,
                     cbdefer, writeVars, kpc, stream, join>>

\* fetch(r) from b.mu.Lock() until it parks or unlocks.  r.alive() is an
\* atomic load of a flag that r.Close() sets without holding b.mu: kill tells
\* that the r.kill() of a Close in progress lands after the first test of
\* r.alive() and before the later ones.
Fetch(r, ph, kill) ==
  LET alive0 == Alive(rstate[r])
      off1 == IF alive0 THEN [roff EXCEPT ![r] = roff[r] + rsize[r]] ELSE roff
      sz == IF alive0 THEN 0 ELSE rsize[r]
      h1 == IF alive0 THEN HeapFix(heap, off1, heap.ri[r]) ELSE heap
      sh == IF alive0 THEN Shift(h1, off1, buf, mem, boff)
            ELSE [buf |-> buf, boff |-> boff, woke |-> FALSE, panic |-> FALSE,
                  over |-> FALSE]
  IN  /\ ~panicked
      /\ kill => alive0 /\ cpc[r] = "idle"
      /\ roff' = off1
      /\ heap' = h1
      /\ buf' = sh.buf
      /\ boff' = sh.boff
      /\ wwait' = IF sh.woke THEN {} ELSE wwait
      /\ rstate' = IF kill THEN [rstate EXCEPT ![r] = @ + 1] ELSE rstate
      /\ cpc' = IF kill THEN [cpc EXCEPT ![r] = "drop"] ELSE cpc
      /\ FetchTail(r, ph, off1, sz, sh.buf, sh.boff, alive0 /\ ~kill)
      /\ panicked' = (sh.panic \/ FetchTailPanics(r, off1, sh.buf, sh.boff, alive0 /\ ~kill))
      /\ inb' = (/\ inb /\ ~sh.over
                 /\ ~FetchTailOver(r, off1, sh.buf, sh.boff, alive0 /\ ~kill))
      /\ UNCHANGED <<mem, bcap, bstate, callback, kind, got, cbdefer, writeVars,
                     kpc, stream, join>>

\* an r.data.Read(p) that moves r.off by the bytes it hands out
DataReadAdvance(r, k) ==
  LET res == RingRead(rdata[r], mem, k)
  IN  /\ rdata' = [rdata EXCEPT ![r] = res.w]
      /\ got' = [got EXCEPT ![r] = @ \o res.bytes]
      /\ roff' = [roff EXCEPT ![r] = @ + res.n]
      /\ IF res.err = EOF
           THEN /\ rpc' = [rpc EXCEPT ![r] = "ck"]
                /\ rn' = [rn EXCEPT ![r] = res.n]
                /\ UNCHANGED <<rret, rphase, nzread>>
           ELSE ReturnRead(r, res.n, NoErr)
      /\ UNCHANGED <<bufVars, rwait, wwait, panicked, kind, rsize,
                     rstate, closeVars, writeVars, kpc, stream, join>>

\* r.data.Read(p) and the test "err == io.EOF"
DataRead(r, k) ==
  LET res == RingRead(rdata[r], mem, k)
  IN  /\ rdata' = [rdata EXCEPT ![r] = res.w]
      /\ got' = [got EXCEPT ![r] = @ \o res.bytes]
      /\ IF res.err = EOF
           THEN /\ rpc' = [rpc EXCEPT ![r] = "ck"]
                /\ rn' = [rn EXCEPT ![r] = res.n]
                /\ UNCHANGED <<rret, rphase, nzread>>
           ELSE ReturnRead(r, res.n, NoErr)
      /\ UNCHANGED <<bufVars, rwait, wwait, panicked, kind, roff, rsize,
                     rstate, closeVars, writeVars, kpc, stream, join>>

\* Read(p) when r.data.Len() == 0: enters fetch
ReadFetch(r) ==
  /\ mu = {}
  /\ UNCHANGED auxRead
  /\ kind[r] # "none" /\ rpc[r] = "idle"
  /\ RingLen(rdata[r], mem) = 0
  /\ UNCHANGED rlate
  /\ \E kill \in BOOLEAN : Fetch(r, 1, kill)

\* Read(p), len(p) = k, when the snapshot still has bytes: no fetch
ReadCached(r, k) ==
  /\ UNCHANGED <<auxRead, inb>>
  /\ ~panicked
  /\ kind[r] # "none" /\ rpc[r] = "idle"
  /\ RingLen(rdata[r], mem) # 0
  /\ rlate' = [rlate EXCEPT ![r] = @ \/ cpc[r] = "done"]
  /\ DataRead(r, k)

\* a reader woken by Broadcast takes b.mu again and re-tests the wait loop
FetchWoken(r) ==
  /\ mu = {}
  /\ UNCHANGED auxRead
  /\ ~panicked /\ rpc[r] = "fw" /\ r \notin rwait
  /\ FetchTail(r, rphase[r], roff, rsize[r], buf, boff, Alive(rstate[r]))
  /\ panicked' = FetchTailPanics(r, roff, buf, boff, Alive(rstate[r]))
  /\ inb' = (inb /\ ~FetchTailOver(r, roff, buf, boff, Alive(rstate[r])))
  /\ UNCHANGED <<bufVars, wwait, kind, roff, rstate, got, rlate, closeVars,
                 writeVars, kpc, stream, join>>

\* r.data.Read(p) after the first fetch; nothing has used len(p) = k so far
ReadData(r, k) ==
  /\ UNCHANGED <<auxRead, inb>>
  /\ ~panicked /\ rpc[r] = "rd"
  /\ UNCHANGED rlate
  /\ DataRead(r, k)

\* an end-of-data test that forgets the reader's own flag
ReadCheckBufferOnly(r) ==
  /\ UNCHANGED auxRead
  /\ ~panicked /\ rpc[r] = "ck"
  /\ UNCHANGED rlate
  /\ IF Alive(bstate)
       THEN /\ ReturnRead(r, rn[r], NoErr)
            /\ UNCHANGED <<bufVars, rwait, wwait, panicked, readerVars, got, inb,
                           closeVars, writeVars, kpc, stream, join>>
       ELSE mu = {} /\ \E kill \in BOOLEAN : Fetch(r, 2, kill)

\* err == io.EOF: "if !r.alive() { return n, err } else if r.buf.alive()
\* { err = nil } else { r.buf.fetch(r) ... }".  A buffer once dead stays dead
\* and a reader that dies before the second fetch makes that fetch do
\* nothing and return io.EOF, as the first branch does: the loads and the
\* fetch are one step.
ReadCheck(r) ==
  /\ UNCHANGED auxRead
  /\ ~panicked /\ rpc[r] = "ck"
  /\ UNCHANGED rlate
  /\ IF ~Alive(rstate[r]) \/ Alive(bstate)
       THEN /\ ReturnRead(r, rn[r], IF ~Alive(rstate[r]) THEN EOF ELSE NoErr)
            /\ UNCHANGED <<bufVars, rwait, wwait, panicked, readerVars, got, inb,
                           closeVars, writeVars, kpc, stream, join>>
       ELSE mu = {} /\ \E kill \in BOOLEAN : Fetch(r, 2, kill)

\* ----------------------------------------------------------- Buffer.Write
RECURSIVE WriteWait(_, _, _, _, _)
\* the head of "for len(p[n:]) > 0 && err == nil"; result
\* [out, n, err, buf, mem, woke]: out is "ret" when Write returns and "wait"
\* when it parks in b.wwait.Wait(); woke when b.rwait.Broadcast() ran
WriteLoop(b, m, p, n, woke) ==
  IF n < Len(p)
    THEN WriteWait(b, m, p, n, woke)
    ELSE [out |-> "ret", n |-> n, err |-> NoErr, buf |-> b, mem |-> m, woke |-> woke]

\* a loop body that never waits for space and writes all of p[n:] at once
WriteWaitUncapped(b, m, p, n, woke) ==
  IF ~Alive(bstate)
    THEN [out |-> "ret", n |-> n, err |-> ErrClosedPipe, buf |-> b, mem |-> m, woke |-> woke]
    ELSE LET w == RingWrite(b, m, SubSeq(p, n + 1, Len(p)))
         IN  [out |-> "ret", n |-> n + w.n, err |-> NoErr, buf |-> w.w, mem |-> w.m,
              woke |-> woke]

\* a loop body that fills the gap from the start of p instead of from p[n:]
WriteWaitRestart(b, m, p, n, woke) ==
  IF bcap > 0 /\ RingLen(b, m) = bcap /\ Alive(bstate)
    THEN [out |-> "wait", n |-> n, err |-> NoErr, buf |-> b, mem |-> m, woke |-> woke]
  ELSE IF ~Alive(bstate)
    THEN [out |-> "ret", n |-> n, err |-> ErrClosedPipe, buf |-> b, mem |-> m, woke |-> woke]
  ELSE IF bcap = 0 \/ bcap - RingLen(b, m) > Len(p) - n
    THEN LET w == RingWrite(b, m, SubSeq(p, n + 1, Len(p)))
         IN  [out |-> "ret", n |-> n + w.n, err |-> NoErr, buf |-> w.w, mem |-> w.m,
              woke |-> woke]
  ELSE LET gap == bcap - RingLen(b, m)
           w == RingWrite(b, m, SubSeq(p, 1, gap))
       IN  WriteLoop(w.w, w.m, p, n + w.n, TRUE)

\* the body of that loop, from the wait loop on
WriteWait(b, m, p, n, woke) ==
  IF bcap > 0 /\ RingLen(b, m) = bcap /\ Alive(bstate)
    THEN [out |-> "wait", n |-> n, err |-> NoErr, buf |-> b, mem |-> m, woke |-> woke]
  ELSE IF ~Alive(bstate)
    THEN [out |-> "ret", n |-> n, err |-> ErrClosedPipe, buf |-> b, mem |-> m, woke |-> woke]
  ELSE IF bcap = 0 \/ bcap - RingLen(b, m) > Len(p) - n
    THEN LET w == RingWrite(b, m, SubSeq(p, n + 1, Len(p)))
         IN  [out |-> "ret", n |-> n + w.n, err |-> NoErr, buf |-> w.w, mem |-> w.m,
              woke |-> woke]
  ELSE LET gap == bcap - RingLen(b, m)
           w == RingWrite(b, m, SubSeq(p, n + 1, n + gap))
       IN  WriteLoop(w.w, w.m, p, n + w.n, TRUE)

\* a pass of Write whose return leaves b.rwait alone
WritePassQuiet(w, p, res) ==
  /\ buf' = res.buf
  /\ mem' = res.mem
  /\ stream' = stream \o SubSeq(RingBytes(res.buf, res.mem),
                                 RingLen(buf, mem) + 1, RingLen(res.buf, res.mem))
  /\ IF res.out = "wait"
       THEN /\ wwait' = wwait \cup {w}
            /\ wpc' = [wpc EXCEPT ![w] = "wait"]
            /\ wp' = [wp EXCEPT ![w] = p]
            /\ wn' = [wn EXCEPT ![w] = res.n]
            /\ rwait' = IF res.woke THEN {} ELSE rwait
            /\ UNCHANGED wret
       ELSE /\ wwait' = wwait
            /\ wpc' = [wpc EXCEPT ![w] = "idle"]
            /\ wp' = [wp EXCEPT ![w] = <<>>]
            /\ wn' = [wn EXCEPT ![w] = 0]
            /\ rwait' = rwait
            /\ wret' = [wret EXCEPT ![w] = [n |-> res.n, err |-> res.err]]

\* what a pass of Write under b.mu does to the state; a pass that returns
\* runs the deferred b.rwait.Broadcast() and hands (n, err) to the caller
WritePass(w, p, res) ==
  /\ buf' = res.buf
  /\ mem' = res.mem
  /\ stream' = stream \o SubSeq(RingBytes(res.buf, res.mem),
                                 RingLen(buf, mem) + 1, RingLen(res.buf, res.mem))
  /\ IF res.out = "wait"
       THEN /\ wwait' = wwait \cup {w}
            /\ wpc' = [wpc EXCEPT ![w] = "wait"]
            /\ wp' = [wp EXCEPT ![w] = p]
            /\ wn' = [wn EXCEPT ![w] = res.n]
            /\ rwait' = IF res.woke THEN {} ELSE rwait
            /\ UNCHANGED wret
       ELSE /\ wwait' = wwait
            /\ wpc' = [wpc EXCEPT ![w] = "idle"]
            /\ wp' = [wp EXCEPT ![w] = <<>>]
            /\ wn' = [wn EXCEPT ![w] = 0]
            /\ rwait' = {}
            /\ wret' = [wret EXCEPT ![w] = [n |-> res.n, err |-> res.err]]

\* p of the next Write: fresh byte values, so that every byte can be told apart
Payload(k) == [i \in 1..k |-> nsub + i]

\* a Write that never looks at b.alive()
WriteUnchecked(w, k) ==
  /\ mu = {}
  /\ UNCHANGED auxVars
  /\ ~panicked /\ wpc[w] = "idle"
  /\ nsub + k <= quota
  /\ nsub' = nsub + k
  /\ LET res == RingWrite(buf, mem, Payload(k))
     IN  WritePass(w, Payload(k), [out |-> "ret", n |-> res.n, err |-> NoErr,
                                  buf |-> res.w, mem |-> res.m, woke |-> FALSE])
  /\ UNCHANGED <<boff, bcap, bstate, heap, callback, panicked, readerVars,
                 readVars, rlate, closeVars, quota, kpc, join>>

\* Write(p), len(p) = k, until it returns or parks in b.wwait.Wait().  The
\* unlocked test of b.alive() and the one under b.mu see the same flag: a
\* Close between them only moves the return from the second to the first.
Write(w, k) ==
  /\ UNCHANGED auxVars
  /\ ~panicked /\ wpc[w] = "idle"
  /\ nsub + k <= quota
  /\ nsub' = nsub + k
  /\ IF ~Alive(bstate)
       THEN /\ wret' = [wret EXCEPT ![w] = [n |-> 0, err |-> ErrClosedPipe]]
            /\ UNCHANGED <<buf, mem, stream, wwait, wpc, wp, wn, rwait>>
       ELSE /\ mu = {}
            /\ WritePass(w, Payload(k), WriteLoop(buf, mem, Payload(k), 0, FALSE))
  /\ UNCHANGED <<boff, bcap, bstate, heap, callback, panicked, readerVars,
                 readVars, rlate, closeVars, quota, kpc, join>>

\* a Write woken in b.wwait.Wait() takes b.mu again and re-tests the wait loop
WriteWoken(w) ==
  /\ mu = {}
  /\ UNCHANGED auxVars
  /\ ~panicked /\ wpc[w] = "wait" /\ w \notin wwait
  /\ WritePass(w, wp[w], WriteWait(buf, mem, wp[w], wn[w], FALSE))
  /\ UNCHANGED <<boff, bcap, bstate, heap, callback, panicked, readerVars,
                 readVars, rlate, closeVars, nsub, quota, kpc, join>>

\* ----------------------------------------------------------- Buffer.Close
\* a Close without b.wwait.Broadcast()
BufferCloseNoWriters ==
  /\ mu = {}
  /\ UNCHANGED auxVars
  /\ ~panicked /\ kpc = "idle"
  /\ bstate' = bstate + 1
  /\ wwait' = wwait
  /\ rwait' = {}
  /\ kpc' = "done"
  /\ UNCHANGED <<mem, buf, boff, bcap, heap, callback, panicked, readerVars,
                 readVars, rlate, closeVars, writeVars, stream, join>>

\* a Close without b.rwait.Broadcast()
BufferCloseNoReaders ==
  /\ mu = {}
  /\ UNCHANGED auxVars
  /\ ~panicked /\ kpc = "idle"
  /\ bstate' = bstate + 1
  /\ wwait' = {}
  /\ rwait' = rwait
  /\ kpc' = "done"
  /\ UNCHANGED <<mem, buf, boff, bcap, heap, callback, panicked, readerVars,
                 readVars, rlate, closeVars, writeVars, stream, join>>

\* b.mu.Lock(); b.kill(); then the deferred b.mu.Unlock(),
\* b.wwait.Broadcast() and b.rwait.Broadcast()
BufferClose ==
  /\ mu = {}
  /\ UNCHANGED auxVars
  /\ ~panicked /\ kpc = "idle"
  /\ bstate' = bstate + 1
  /\ wwait' = {}
  /\ rwait' = {}
  /\ kpc' = "done"
  /\ UNCHANGED <<mem, buf, boff, bcap, heap, callback, panicked, readerVars,
                 readVars, rlate, closeVars, writeVars, stream, join>>

\* the reading goroutine of TestCappedBuffer, ioutil.ReadAll(r): the next
\* Read(p), len(p) = k, unless a Read has returned io.EOF; its owner calls no
\* Read after r.Close() either
ReadAll(r, k) ==
  /\ rret[r] # EOF /\ cpc[r] = "idle"
  /\ ReadFetch(r) \/ ReadCached(r, k)

\* the writing goroutine of TestCappedBuffer: buf.Close() once its Writes
\* have returned
WriterClose ==
  /\ nsub = quota
  /\ \A w \in Writers : wpc[w] \in {"idle", "off"}
  /\ BufferClose

\* ----------------------------------------------------------- reader.Close
\* r.closeOnce.Do: r.kill(), an atomic store made without b.mu
CloseKill(r) ==
  /\ UNCHANGED auxVars
  /\ ~panicked /\ kind[r] # "none" /\ cpc[r] = "idle"
  /\ rstate' = [rstate EXCEPT ![r] = @ + 1]
  /\ cpc' = [cpc EXCEPT ![r] = "drop"]
  /\ UNCHANGED <<bufVars, rwait, wwait, panicked, kind, roff, rsize, rdata,
                 readVars, rlate, cbdefer, writeVars, kpc, stream, join>>

\* a drop without the deferred b.rwait.Broadcast()
DropQuiet(r) ==
  /\ mu = {}
  /\ UNCHANGED auxButInb
  /\ ~panicked /\ cpc[r] = "drop"
  /\ cbdefer' = [cbdefer EXCEPT ![r] = HeapLen(heap) = 1 /\ callback # "nil"]
  /\ LET h1 == HeapRemove(heap, roff, heap.ri[r])
         sh == Shift(h1, roff, buf, mem, boff)
     IN  /\ heap' = h1
         /\ buf' = sh.buf
         /\ boff' = sh.boff
         /\ wwait' = IF sh.woke THEN {} ELSE wwait
         /\ panicked' = sh.panic
         /\ inb' = (inb /\ ~sh.over)
  /\ rwait' = rwait
  /\ cpc' = [cpc EXCEPT ![r] = IF cbdefer'[r] THEN "cb" ELSE "done"]
  /\ UNCHANGED <<mem, bcap, bstate, callback, readerVars, readVars, rlate,
                 writeVars, kpc, stream, join>>

\* Buffer.drop(r): the body under b.mu, then the deferred b.mu.Unlock() and
\* b.rwait.Broadcast(); Close returns unless a callback was deferred
Drop(r) ==
  /\ mu = {}
  /\ UNCHANGED auxButInb
  /\ ~panicked /\ cpc[r] = "drop"
  /\ cbdefer' = [cbdefer EXCEPT ![r] = HeapLen(heap) = 1 /\ callback # "nil"]
  /\ LET h1 == HeapRemove(heap, roff, heap.ri[r])
         sh == Shift(h1, roff, buf, mem, boff)
     IN  /\ heap' = h1
         /\ buf' = sh.buf
         /\ boff' = sh.boff
         /\ wwait' = IF sh.woke THEN {} ELSE wwait
         /\ panicked' = sh.panic
         /\ inb' = (inb /\ ~sh.over)
  /\ rwait' = {}
  /\ cpc' = [cpc EXCEPT ![r] = IF cbdefer'[r] THEN "cb" ELSE "done"]
  /\ UNCHANGED <<mem, bcap, bstate, callback, readerVars, readVars, rlate,
                 writeVars, kpc, stream, join>>

\* ------------------------------------------- NumReaders, OnLastReaderClose
\* Buffer.NumReaders(): len(b.rh) under b.mu
BufferNumReaders == HeapLen(heap)

\* Buffer.OnLastReaderClose(f): b.callback.Store(f), without b.mu.  f is
\* "note", a function of the caller that does not touch the buffer, or
\* "close", the method value b.Close
OnLastReaderClose(f) ==
  /\ ~panicked /\ callback = "nil"
  /\ callback' = f
  /\ UNCHANGED <<mem, buf, boff, bcap, bstate, heap, rwait, wwait, panicked,
                 readerVars, readVars, rlate, closeVars, writeVars, kpc,
                 stream, join, auxVars>>

\* ------------------------------------------ reader.Close, drop step by step
\* a drop that takes the reader before the last for the last: it defers
\* the callback when len(b.rh) == 2
DropLockTwo(r) ==
  /\ ~panicked /\ cpc[r] = "drop" /\ mu = {}
  /\ cbdefer' = [cbdefer EXCEPT ![r] = HeapLen(heap) = 2 /\ callback # "nil"]
  /\ LET h1 == HeapRemove(heap, roff, heap.ri[r])
         sh == Shift(h1, roff, buf, mem, boff)
     IN  /\ heap' = h1
         /\ buf' = sh.buf
         /\ boff' = sh.boff
         /\ wwait' = IF sh.woke THEN {} ELSE wwait
         /\ panicked' = sh.panic
         /\ inb' = (inb /\ ~sh.over)
  /\ mu' = {r}
  /\ cpc' = [cpc EXCEPT ![r] = "unlock"]
  /\ UNCHANGED <<mem, bcap, bstate, callback, rwait, readerVars, readVars, rlate,
                 writeVars, kpc, stream, join, ncb, c2pc, kept, dret,
                 sread, nzread>>

\* a drop that defers the callback whatever len(b.rh) is
DropLockAlways(r) ==
  /\ ~panicked /\ cpc[r] = "drop" /\ mu = {}
  /\ cbdefer' = [cbdefer EXCEPT ![r] = callback # "nil"]
  /\ LET h1 == HeapRemove(heap, roff, heap.ri[r])
         sh == Shift(h1, roff, buf, mem, boff)
     IN  /\ heap' = h1
         /\ buf' = sh.buf
         /\ boff' = sh.boff
         /\ wwait' = IF sh.woke THEN {} ELSE wwait
         /\ panicked' = sh.panic
         /\ inb' = (inb /\ ~sh.over)
  /\ mu' = {r}
  /\ cpc' = [cpc EXCEPT ![r] = "unlock"]
  /\ UNCHANGED <<mem, bcap, bstate, callback, rwait, readerVars, readVars, rlate,
                 writeVars, kpc, stream, join, ncb, c2pc, kept, dret,
                 sread, nzread>>

\* Buffer.drop(r) from b.mu.Lock() to the end of its body: the deferred calls
\* are still to run and b.mu is held
DropLock(r) ==
  /\ ~panicked /\ cpc[r] = "drop" /\ mu = {}
  /\ cbdefer' = [cbdefer EXCEPT ![r] = HeapLen(heap) = 1 /\ callback # "nil"]
  /\ LET h1 == HeapRemove(heap, roff, heap.ri[r])
         sh == Shift(h1, roff, buf, mem, boff)
     IN  /\ heap' = h1
         /\ buf' = sh.buf
         /\ boff' = sh.boff
         /\ wwait' = IF sh.woke THEN {} ELSE wwait
         /\ panicked' = sh.panic
         /\ inb' = (inb /\ ~sh.over)
  /\ mu' = {r}
  /\ cpc' = [cpc EXCEPT ![r] = "unlock"]
  /\ UNCHANGED <<mem, bcap, bstate, callback, rwait, readerVars, readVars, rlate,
                 writeVars, kpc, stream, join, ncb, c2pc, kept, dret,
                 sread, nzread>>

\* a drop whose deferred callback is registered last and so runs first,
\* before b.mu.Unlock()
DropUnlockLate(r) ==
  /\ ~panicked /\ cpc[r] = "unlock"
  /\ mu' = IF cbdefer[r] THEN mu ELSE {}
  /\ rwait' = IF cbdefer[r] THEN rwait ELSE {}
  /\ cpc' = [cpc EXCEPT ![r] = IF cbdefer[r] THEN "cb" ELSE "done"]
  /\ UNCHANGED <<bufVars, wwait, panicked, readerVars, readVars, rlate, cbdefer,
                 writeVars, kpc, stream, join, ncb, c2pc, kept, dret,
                 inb, sread, nzread>>

\* the deferred b.mu.Unlock() and b.rwait.Broadcast() of drop; what is left
\* of Close is the deferred callback, if drop loaded one
DropUnlock(r) ==
  /\ ~panicked /\ cpc[r] = "unlock"
  /\ mu' = {}
  /\ rwait' = {}
  /\ cpc' = [cpc EXCEPT ![r] = IF cbdefer[r] THEN "cb" ELSE "done"]
  /\ UNCHANGED <<bufVars, wwait, panicked, readerVars, readVars, rlate, cbdefer,
                 writeVars, kpc, stream, join, ncb, c2pc, kept, dret,
                 inb, sread, nzread>>

\* the deferred call.(func() error)(), then drop and Close return.  The
\* callback "close" is Buffer.Close: b.mu.Lock(), b.kill(), the broadcasts
Callback(r) ==
  /\ ~panicked /\ cpc[r] = "cb"
  /\ ncb' = ncb + 1
  /\ IF callback = "close"
       THEN /\ mu = {}
            /\ bstate' = bstate + 1
            /\ wwait' = {}
            /\ rwait' = {}
       ELSE UNCHANGED <<bstate, wwait, rwait>>
  /\ cpc' = [cpc EXCEPT ![r] = "done"]
  /\ UNCHANGED <<mem, buf, boff, bcap, heap, callback, panicked, readerVars,
                 readVars, rlate, cbdefer, writeVars, kpc, stream, join, mu,
                 c2pc, kept, dret,
                 inb, sread, nzread>>

\* a second call of r.Close() that runs r.kill() and drop again, with the
\* index r.i the first call left; an index past the end of b.rh panics
CloseAgainCallTwice(r) ==
  /\ ~panicked /\ kind[r] # "none" /\ c2pc[r] = "idle" /\ cpc[r] # "idle"
  /\ mu = {}
  /\ c2pc' = [c2pc EXCEPT ![r] = "once"]
  /\ IF heap.ri[r] < HeapLen(heap)
       THEN /\ heap' = HeapRemove(heap, roff, heap.ri[r])
            /\ UNCHANGED panicked
       ELSE /\ panicked' = TRUE
            /\ UNCHANGED heap
  /\ UNCHANGED <<mem, buf, boff, bcap, bstate, callback, rwait, wwait,
                 readerVars, readVars, rlate, closeVars, writeVars, kpc, stream,
                 join, mu, ncb, kept, dret,
                 inb, sread, nzread>>

\* r.Close() called again, while or after the first call runs:
\* r.closeOnce.Do does not run the function a second time and ...
CloseAgainCall(r) ==
  /\ ~panicked /\ kind[r] # "none" /\ c2pc[r] = "idle" /\ cpc[r] # "idle"
  /\ c2pc' = [c2pc EXCEPT ![r] = "once"]
  /\ UNCHANGED <<bufVars, rwait, wwait, panicked, readerVars, readVars, rlate,
                 closeVars, writeVars, kpc, stream, join, mu, ncb, kept, dret,
                 inb, sread, nzread>>

\* ... returns once the first call has returned
CloseAgainReturn(r) ==
  /\ ~panicked /\ c2pc[r] = "once" /\ cpc[r] = "done"
  /\ c2pc' = [c2pc EXCEPT ![r] = "done"]
  /\ UNCHANGED <<bufVars, rwait, wwait, panicked, readerVars, readVars, rlate,
                 closeVars, writeVars, kpc, stream, join, mu, ncb, kept, dret,
                 inb, sread, nzread>>

\* ------------------------------------------- the store used on its own
\* The calls of the Writer interface on newWriter(nil), made one after the
\* other.  boff counts the bytes the Discards have reported, roff[r] is the
\* position of snapshot r in the same count, got[r] what was read from it.

\* Write(p), len(p) = k
StoreWrite(k) ==
  /\ ~panicked
  /\ nsub + k <= quota
  /\ nsub' = nsub + k
  /\ LET res == RingWrite(buf, mem, Payload(k))
     IN  /\ buf' = res.w
         /\ mem' = res.m
         /\ stream' = stream \o SubSeq(Payload(k), 1, res.n)
  /\ UNCHANGED <<boff, bcap, bstate, heap, callback, rwait, wwait, panicked,
                 readerVars, readVars, rlate, closeVars, wpc, wp, wn, wret,
                 quota, kpc, join, auxVars>>

\* Discard(s); the caller stops discarding once the Discards have reported
\* MaxDiscard bytes more than were ever written
StoreDiscard(s) ==
  /\ ~panicked
  /\ boff + s <= quota + MaxDiscard
  /\ kept' = (/\ kept
              /\ s <= RingLen(buf, mem)
              /\ \A r \in Readers : kind[r] # "none" => boff + s <= roff[r])
  /\ IF RingDiscardPanics(buf, mem, s)
       THEN /\ panicked' = TRUE
            /\ UNCHANGED <<buf, boff, dret>>
       ELSE LET d == RingDiscard(buf, mem, s)
            IN  /\ buf' = d.w
                /\ boff' = boff + d.n
                /\ dret' = [s |-> s, n |-> d.n, err |-> d.err,
                            before |-> RingLen(buf, mem),
                            after |-> RingLen(d.w, mem)]
                /\ UNCHANGED panicked
  /\ inb' = (inb /\ s <= RingLen(buf, mem))
  /\ UNCHANGED <<mem, bcap, bstate, heap, callback, rwait, wwait, readerVars,
                 readVars, rlate, closeVars, writeVars, kpc, stream, join,
                 mu, ncb, c2pc, sread, nzread>>

\* Read(p), len(p) = k, on the store itself; it ends with Discard(n)
StoreRead(k) ==
  /\ ~panicked
  /\ LET res == RingRead(buf, mem, k)
     IN  /\ buf' = res.w
         /\ boff' = boff + res.n
         /\ sread' = [k |-> k, n |-> res.n, err |-> res.err, bytes |-> res.bytes,
                      tick |-> ~sread.tick]
         /\ dret' = IF buf.empty THEN dret
                    ELSE [s |-> Min(k, RingLen(buf, mem)), n |-> res.n,
                          err |-> res.err, before |-> RingLen(buf, mem),
                          after |-> RingLen(res.w, mem)]
         /\ kept' = (/\ kept
                     /\ \A r \in Readers : kind[r] # "none" => boff + res.n <= roff[r])
  /\ UNCHANGED <<mem, bcap, bstate, heap, callback, rwait, wwait, panicked,
                 readerVars, readVars, rlate, closeVars, writeVars, kpc, stream,
                 join, mu, ncb, c2pc, inb, nzread>>

\* NextReader() of the store: snapshot r
StoreNextReader(r) ==
  /\ ~panicked
  /\ kind[r] = "none"
  /\ kind' = [kind EXCEPT ![r] = "snap"]
  /\ rdata' = [rdata EXCEPT ![r] = RingNextReader(buf)]
  /\ roff' = [roff EXCEPT ![r] = boff]
  /\ join' = [join EXCEPT ![r] = [retained |-> RingBytes(buf, mem),
                                  written |-> Len(stream)]]
  /\ UNCHANGED <<bufVars, rwait, wwait, panicked, rsize, rstate, readVars,
                 rlate, closeVars, writeVars, kpc, stream, auxVars>>

\* Read(p), len(p) = k, on snapshot r
SnapRead(r, k) ==
  /\ ~panicked
  /\ kind[r] = "snap"
  /\ LET res == RingRead(rdata[r], mem, k)
     IN  /\ rdata' = [rdata EXCEPT ![r] = res.w]
         /\ got' = [got EXCEPT ![r] = @ \o res.bytes]
         /\ roff' = [roff EXCEPT ![r] = @ + res.n]
         /\ rret' = [rret EXCEPT ![r] = res.err]
  /\ UNCHANGED <<bufVars, rwait, wwait, panicked, kind, rsize, rstate, rpc,
                 rphase, rn, rlate, closeVars, writeVars, kpc, stream, join,
                 auxVars>>

\* ------------------------------------------------------------------ Next
ReaderStep ==
  \/ \E r \in Readers : NextReader(r)
  \/ \E r \in Readers : NextReaderFromNow(r)
  \/ \E r \in Readers : ReadFetch(r)
  \/ \E r \in Readers, k \in 1..MaxReadLen : ReadCached(r, k)
  \/ \E r \in Readers : FetchWoken(r)
  \/ \E r \in Readers, k \in 1..MaxReadLen : ReadData(r, k)
  \/ \E r \in Readers : ReadCheck(r)

CloseStep ==
  \/ BufferClose
  \/ \E r \in Readers : CloseKill(r)
  \/ \E r \in Readers : Drop(r)

\* without a capacity bound no Write ever parks
Next ==
  \/ ReaderStep
  \/ CloseStep
  \/ \E w \in Writers, k \in 1..MaxBytes : Write(w, k)

NextCapped ==
  \/ ReaderStep
  \/ CloseStep
  \/ \E w \in Writers, k \in 1..MaxBytes : Write(w, k)
  \/ \E w \in Writers : WriteWoken(w)

\* readers from the oldest byte that stay to the end against a writer that
\* is never closed
NextWrap ==
  \/ \E r \in Readers : NextReader(r)
  \/ \E r \in Readers : ReadFetch(r)
  \/ \E r \in Readers, k \in 1..MaxReadLen : ReadCached(r, k)
  \/ \E r \in Readers : FetchWoken(r)
  \/ \E r \in Readers, k \in 1..MaxReadLen : ReadData(r, k)
  \/ \E r \in Readers : ReadCheck(r)
  \/ \E w \in Writers, k \in 1..MaxBytes : Write(w, k)
  \/ \E w \in Writers : WriteWoken(w)

\* several writers against readers that stay to the end
NextWriters ==
  \/ \E r \in Readers : NextReader(r)
  \/ \E r \in Readers : ReadFetch(r)
  \/ \E r \in Readers, k \in 1..MaxReadLen : ReadCached(r, k)
  \/ \E r \in Readers : FetchWoken(r)
  \/ \E r \in Readers, k \in 1..MaxReadLen : ReadData(r, k)
  \/ \E r \in Readers : ReadCheck(r)
  \/ \E w \in Writers, k \in 1..MaxBytes : Write(w, k)
  \/ \E w \in Writers : WriteWoken(w)
  \/ BufferClose

\* several writers against readers that stay, on a buffer that stays open
NextInterleave ==
  \/ \E r \in Readers : NextReader(r)
  \/ \E r \in Readers : ReadFetch(r)
  \/ \E r \in Readers, k \in 1..MaxReadLen : ReadCached(r, k)
  \/ \E r \in Readers : FetchWoken(r)
  \/ \E r \in Readers, k \in 1..MaxReadLen : ReadData(r, k)
  \/ \E r \in Readers : ReadCheck(r)
  \/ \E w \in Writers, k \in 1..MaxBytes : Write(w, k)
  \/ \E w \in Writers : WriteWoken(w)

\* readers that come and go around a writer and a Close of the buffer
NextLive ==
  \/ \E r \in Readers : NextReader(r)
  \/ \E r \in Readers : ReadFetch(r)
  \/ \E r \in Readers, k \in 1..MaxReadLen : ReadCached(r, k)
  \/ \E r \in Readers : FetchWoken(r)
  \/ \E r \in Readers, k \in 1..MaxReadLen : ReadData(r, k)
  \/ \E r \in Readers : ReadCheck(r)
  \/ \E w \in Writers, k \in 1..MaxBytes : Write(w, k)
  \/ BufferClose
  \/ \E r \in Readers : CloseKill(r)
  \/ \E r \in Readers : Drop(r)

\* readers that come, read and close around a writer that is held up by the
\* capacity and closes the buffer after its last Write
NextPressure ==
  \/ \E r \in Readers : NextReader(r)
  \/ \E r \in Readers, k \in 1..MaxReadLen : ReadAll(r, k)
  \/ \E r \in Readers : FetchWoken(r)
  \/ \E r \in Readers, k \in 1..MaxReadLen : ReadData(r, k)
  \/ \E r \in Readers : ReadCheck(r)
  \/ \E w \in Writers, k \in 1..MaxBytes : Write(w, k)
  \/ \E w \in Writers : WriteWoken(w)
  \/ WriterClose
  \/ \E r \in Readers : CloseKill(r)
  \/ \E r \in Readers : Drop(r)

\* readers that come and close, twice too, around a registered callback, a
\* writer held up by the capacity and a Close of the buffer
NextCallback ==
  \/ \E r \in Readers : NextReader(r)
  \/ \E f \in {"note", "close"} : OnLastReaderClose(f)
  \/ \E w \in Writers, k \in 1..MaxBytes : Write(w, k)
  \/ \E w \in Writers : WriteWoken(w)
  \/ BufferClose
  \/ \E r \in Readers : CloseKill(r)
  \/ \E r \in Readers : DropLock(r)
  \/ \E r \in Readers : DropUnlock(r)
  \/ \E r \in Readers : Callback(r)
  \/ \E r \in Readers : CloseAgainCall(r)
  \/ \E r \in Readers : CloseAgainReturn(r)

\* a store, its snapshots and a caller that writes, discards and reads
NextStore ==
  \/ \E k \in 1..MaxBytes : StoreWrite(k)
  \/ \E n \in 1..MaxDiscard : StoreDiscard(n)
  \/ \E r \in Readers : StoreNextReader(r)
  \/ \E r \in Readers, k \in 1..MaxReadLen : SnapRead(r, k)

\* a store without snapshots and a caller that writes, discards and reads
NextQueue ==
  \/ \E k \in 1..MaxBytes : StoreWrite(k)
  \/ \E n \in 1..MaxDiscard : StoreDiscard(n)
  \/ \E k \in 1..MaxReadLen : StoreRead(k)

Spec == Init /\ [][Next]_vars

SpecCapped == InitCapped /\ [][NextCapped]_vars

SpecWriters == InitWriters /\ [][NextWriters]_vars

SpecInterleave == InitInterleave /\ [][NextInterleave]_vars

SpecStore == InitStore /\ [][NextStore]_vars

SpecQueue == InitQueue /\ [][NextQueue]_vars

SpecWrap == InitWrap /\ [][NextWrap]_vars

\* a call in progress goes on (the Go scheduler starves no runnable
\* goroutine), and a reader keeps calling Read; nothing makes a writer write
\* or anybody call Close
Fairness ==
  /\ \A r \in Readers : WF_vars(ReadFetch(r) \/ \E k \in 1..MaxReadLen : ReadCached(r, k))
  /\ \A r \in Readers : WF_vars(FetchWoken(r))
  /\ \A r \in Readers : WF_vars(\E k \in 1..MaxReadLen : ReadData(r, k))
  /\ \A r \in Readers : WF_vars(ReadCheck(r))
  /\ \A r \in Readers : WF_vars(Drop(r))

SpecLive == InitLive /\ [][NextLive]_vars /\ Fairness

\* the steps of the goroutines that are in a call or have one to make next:
\* readers in ReadAll, Closes in progress, the writer
StepPressure ==
  \/ \E r \in Readers, k \in 1..MaxReadLen : ReadAll(r, k)
  \/ \E r \in Readers : FetchWoken(r)
  \/ \E r \in Readers, k \in 1..MaxReadLen : ReadData(r, k)
  \/ \E r \in Readers : ReadCheck(r)
  \/ \E w \in Writers, k \in 1..MaxBytes : Write(w, k)
  \/ \E w \in Writers : WriteWoken(w)
  \/ WriterClose
  \/ \E r \in Readers : Drop(r)

\* a goroutine that can take a step is not held back for ever.  Every
\* behaviour of NextPressure is finite, so that it is enough to ask that
\* the system does not stop while one of these steps can be taken.
FairnessPressure == WF_vars(StepPressure)

SpecPressure == InitCapped /\ [][NextPressure]_vars /\ FairnessPressure

\* a Close in progress goes on, and so does a Write that was woken
FairnessCallback ==
  /\ \A r \in Readers : WF_vars(DropLock(r))
  /\ \A r \in Readers : WF_vars(DropUnlock(r))
  /\ \A r \in Readers : WF_vars(Callback(r))
  /\ \A r \in Readers : WF_vars(CloseAgainReturn(r))
  /\ \A w \in Writers : WF_vars(WriteWoken(w))

SpecCallback == InitCapped /\ [][NextCallback]_vars /\ FairnessCallback

TypeOK ==
  /\ rwait \subseteq Readers
  /\ wwait \subseteq Writers
  /\ boff \in Nat
  /\ \A r \in Readers : rpc[r] \in {"idle", "fw", "rd", "ck"}

\* =====================================================================
\* Properties
\* =====================================================================
IsPrefix(a, b) == Len(a) <= Len(b) /\ SubSeq(b, 1, Len(a)) = a

Range(q) == {q[i] : i \in 1..Len(q)}

\* the bytes of q that belong to S, in the order of q
RECURSIVE Restrict(_, _)
Restrict(q, S) ==
  IF q = <<>> THEN <<>>
  ELSE IF Head(q) \in S THEN <<Head(q)>> \o Restrict(Tail(q), S)
  ELSE Restrict(Tail(q), S)

\* what was appended after the first k bytes of the stream
After(k) == SubSeq(stream, k + 1, Len(stream))

\* the bytes reader r is due: for NextReader what the store retained when r
\* was made and everything appended since, for NextReaderFromNow only the latter
Due(r) ==
  IF kind[r] = "next" THEN join[r].retained \o After(join[r].written)
  ELSE After(join[r].written)

\* the bytes that had been appended and evicted when r was made
EvictedAtJoin(r) ==
  Range(SubSeq(stream, 1, join[r].written)) \ Range(join[r].retained)

\* writer w, the only goroutine that writes, calls Write in this step
Calls(w) ==
  /\ wpc[w] = "idle"
  /\ nsub' # nsub
  /\ \A v \in Writers : v # w => wpc[v] = "off"

\* the Write of w returns in this step, and p is what it was given
WriteReturns(w) == wpc'[w] = "idle" /\ (wpc[w] = "wait" \/ Calls(w))

WriteArg(w) ==
  IF wpc[w] = "wait" THEN wp[w] ELSE [i \in 1..(nsub' - nsub) |-> nsub + i]

\* ---------------------------------------------------------------- C1
\* C1: a reader made by NextReader before the first byte was written, not
\* closed, only ever receives a prefix of the written stream, in order and
\* without duplicates, and once its Read has returned end-of-data the buffer
\* is closed and the reader has received the whole stream.
C1_BroadcastComplete ==
  \A r \in Readers :
    (kind[r] = "next" /\ join[r].written = 0 /\ Alive(rstate[r]))
      => /\ IsPrefix(got[r], stream)
         /\ rret[r] = EOF => (~Alive(bstate) /\ got[r] = stream)

\* every reader was there from the start and has read both bytes to the end
C1_Witness ==
  /\ Len(stream) = MaxBytes
  /\ \A r \in Readers :
       /\ kind[r] = "next" /\ join[r].written = 0 /\ Alive(rstate[r])
       /\ rret[r] = EOF /\ got[r] = stream

\* ---------------------------------------------------------------- C2
\* C2: on a buffer with capacity C > 0 the store never holds more than C
\* bytes, whatever the writers and the readers do.
C2_CapacityBound ==
  bcap > 0 => (RingLen(buf, mem) <= bcap /\ Len(RingBytes(buf, mem)) <= bcap)

\* the store is full, one writer is parked on it and the other has written
C2_Witness ==
  /\ bcap > 0 /\ RingLen(buf, mem) = bcap
  /\ \E w, v \in Writers : w # v /\ w \in wwait /\ wret[v].n > 0

\* ---------------------------------------------------------------- C3
\* C3: when a Write(p) on a capped buffer returns n, the bytes of p that
\* were appended are exactly p[0:n], in order and once each; n < len(p) only
\* comes with an error, and while the buffer is open Write returns
\* (len(p), nil), also for a p longer than the capacity.
C3_Step ==
  \A w \in Writers :
    WriteReturns(w) =>
      LET p == WriteArg(w)
          n == wret'[w].n
      IN  /\ n \in 0..Len(p)
          /\ Restrict(stream', Range(p)) = SubSeq(p, 1, n)
          /\ n < Len(p) => wret'[w].err # NoErr
          /\ Alive(bstate) => wret'[w] = [n |-> Len(p), err |-> NoErr]

C3_WriteSplits == [][C3_Step]_vars

\* a Write longer than the capacity came back complete
C3_Witness ==
  \E w \in Writers :
    /\ bcap > 0 /\ wret[w].n > bcap /\ wret[w].err = NoErr
    /\ Len(stream) = wret[w].n

\* ---------------------------------------------------------------- C4
\* C4: a reader made by NextReader starts at the discard offset of that
\* moment; while it is not closed it receives, in order, the bytes the store
\* retained when it was made followed by the bytes appended since, all of
\* them once its Read has returned end-of-data, and never a byte that had
\* been evicted before it was made.
C4_Inv ==
  \A r \in Readers :
    (kind[r] = "next" /\ Alive(rstate[r]))
      => /\ join[r].retained =
              SubSeq(stream, join[r].written - Len(join[r].retained) + 1,
                     join[r].written)
         /\ IsPrefix(got[r], Due(r))
         /\ rret[r] = EOF => got[r] = Due(r)
         /\ Range(got[r]) \cap EvictedAtJoin(r) = {}

C4_Step ==
  \A r \in Readers :
    (kind[r] = "none" /\ kind'[r] = "next")
      => /\ roff'[r] = boff
         /\ boff = Len(stream) - Len(RingBytes(buf, mem))

C4_LateJoin == [](C4_Inv) /\ [][C4_Step]_vars

\* a reader that joined after an eviction has read what was retained
C4_Witness ==
  \E r \in Readers :
    /\ kind[r] = "next" /\ Alive(rstate[r])
    /\ join[r].retained # <<>> /\ EvictedAtJoin(r) # {}
    /\ rret[r] = EOF /\ got[r] = join[r].retained

\* ---------------------------------------------------------------- C5
\* C5: a reader made by NextReaderFromNow starts at the write offset of that
\* moment; while it is not closed it never receives a byte appended before
\* it was made and receives, in order, the bytes appended since, all of them
\* once its Read has returned end-of-data.
C5_Inv ==
  \A r \in Readers :
    (kind[r] = "now" /\ Alive(rstate[r]))
      => /\ IsPrefix(got[r], After(join[r].written))
         /\ rret[r] = EOF => got[r] = After(join[r].written)
         /\ Range(got[r]) \cap Range(SubSeq(stream, 1, join[r].written)) = {}

C5_Step ==
  \A r \in Readers :
    (kind[r] = "none" /\ kind'[r] = "now") => roff'[r] = Len(stream)

C5_FromNow == [](C5_Inv) /\ [][C5_Step]_vars

\* a reader made while the store retained a byte has read only the later one
C5_Witness ==
  \E r \in Readers :
    /\ kind[r] = "now" /\ Alive(rstate[r])
    /\ join[r].retained # <<>>
    /\ rret[r] = EOF /\ got[r] # <<>> /\ got[r] = After(join[r].written)

\* ---------------------------------------------------------------- C6
\* C6: a Write called on a closed buffer returns (0, ErrClosedPipe) at once
\* and changes neither the store, nor the discard offset, nor any reader.
C6_Step ==
  \A w \in Writers :
    (~Alive(bstate) /\ Calls(w))
      => /\ wpc'[w] = "idle"
         /\ wret'[w] = [n |-> 0, err |-> ErrClosedPipe]
         /\ UNCHANGED <<mem, buf, boff, heap, roff, rsize, rdata, stream>>

C6_WriteAfterClose == [][C6_Step]_vars

\* bytes were handed to Write after Close and none of them was appended
C6_Witness ==
  \E w \in Writers :
    /\ ~Alive(bstate) /\ wret[w] = [n |-> 0, err |-> ErrClosedPipe]
    /\ stream # <<>> /\ nsub > Len(stream)
    /\ \E r \in Readers : got[r] # <<>>

\* ---------------------------------------------------------------- C7
\* C7: after Buffer.Close no Write stays parked; a Write that was waiting
\* for space returns (n, ErrClosedPipe) with n the number of bytes of p it
\* had appended, and nothing is appended to the store after Close.
C7_Inv == ~Alive(bstate) => wwait = {}

C7_Step ==
  /\ ~Alive(bstate) => stream' = stream
  /\ \A w \in Writers :
       (~Alive(bstate) /\ wpc[w] = "wait" /\ wpc'[w] = "idle")
         => /\ wret'[w].err = ErrClosedPipe
            /\ wret'[w].n = Cardinality(Range(wp[w]) \cap Range(stream))
            /\ Restrict(stream, Range(wp[w])) = SubSeq(wp[w], 1, wret'[w].n)

C7_CloseCancelsWriter == [](C7_Inv) /\ [][C7_Step]_vars

\* a Write cut short by Close reported the byte it had appended
C7_Witness ==
  \E w \in Writers :
    /\ ~Alive(bstate) /\ wret[w].err = ErrClosedPipe /\ wret[w].n > 0
    /\ Len(stream) < nsub

\* ---------------------------------------------------------------- C8
\* C8: a Read that is blocked on a reader whose Close has been called
\* returns end-of-data, without any Write or Buffer.Close taking place; when
\* that Close has returned the Read is no longer parked.
C8_CloseUnblocksRead ==
  /\ [](\A r \in Readers : (cpc[r] = "done" /\ rpc[r] = "fw") => r \notin rwait)
  /\ \A r \in Readers :
       (rpc[r] = "fw" /\ cpc[r] # "idle") ~> (rpc[r] = "idle" /\ rret[r] = EOF)

\* a parked Read that nothing but its own reader's Close can have woken
C8_Witness ==
  \E r \in Readers :
    /\ rpc[r] = "fw" /\ r \notin rwait /\ cpc[r] = "done"
    /\ Alive(bstate) /\ nsub = 0
    /\ \A q \in Readers : q # r => cpc[q] = "idle"

\* ---------------------------------------------------------------- C9
\* C9: once the buffer is closed no Read is parked, and every reader, made
\* before or after the Close, that keeps reading comes to a Read that
\* returns end-of-data, having received all the bytes it was due if it was
\* not closed itself.
C9_Inv == ~Alive(bstate) => rwait = {}

C9_CloseEndsStream ==
  /\ [](C9_Inv)
  /\ \A r \in Readers :
       (~Alive(bstate) /\ kind[r] # "none")
         ~> (/\ rpc[r] = "idle" /\ rret[r] = EOF
             /\ Alive(rstate[r]) => got[r] = Due(r))

\* on a closed buffer a reader has drained what was retained, another that
\* had nothing left got end-of-data too
C9_Witness ==
  /\ ~Alive(bstate) /\ stream # <<>>
  /\ \A r \in Readers : kind[r] # "none" /\ Alive(rstate[r]) /\ rret[r] = EOF
  /\ \E r \in Readers : got[r] = stream
  /\ \E r \in Readers : got[r] = <<>>

\* ---------------------------------------------------------------- C10
\* A Read that begins after r.Close() has returned comes back either in the
\* same step, from the bytes cached in the snapshot, or from the test that
\* follows end-of-data (pc "ck").
LateReturn(r) ==
  /\ cpc[r] = "done" /\ rpc'[r] = "idle"
  /\ \/ rpc[r] = "idle" /\ got'[r] # got[r]
     \/ rpc[r] = "ck"

\* C10 as stated: once Close on a reader has returned, every Read on it
\* returns end-of-data, whatever the snapshot had cached.
C10_Original ==
  [][\A r \in Readers : LateReturn(r) => rret'[r] = EOF]_vars

\* C10: once Close on a reader has returned, a Read on it never parks and
\* returns end-of-data exactly when it leaves no byte cached in the
\* snapshot: cached bytes are handed out first, with a nil error as long as
\* some remain.
C10_Inv == \A r \in Readers : cpc[r] = "done" => r \notin rwait

C10_Step ==
  \A r \in Readers :
    LateReturn(r) => (rret'[r] = EOF <=> RingLen(rdata'[r], mem') = 0)

C10_ReadAfterClose == [](C10_Inv) /\ [][C10_Step]_vars

\* a Read that began after Close had returned came back with bytes and nil
C10_Witness ==
  \E r \in Readers :
    /\ rlate[r] /\ cpc[r] = "done" /\ rpc[r] = "idle"
    /\ rret[r] = NoErr /\ RingLen(rdata[r], mem) > 0

\* ---------------------------------------------------------------- C11
\* reader r is in the priority structure
Registered(r) == \E i \in 1..Len(heap.rh) : heap.rh[i] = r

\* C11: a reader is in the priority structure, once, from its creation to
\* the drop of its first Close and never again; it is taken out only by that
\* drop; a further Close on it, while or after the first one runs, changes
\* neither NumReaders, nor the heap, nor the discard offset, nor the store,
\* and owes and invokes no callback.
C11_Inv ==
  \A r \in Readers :
    /\ Cardinality({i \in 1..Len(heap.rh) : heap.rh[i] = r}) <= 1
    /\ Registered(r) <=> (kind[r] # "none" /\ cpc[r] \in {"idle", "drop"})

C11_Step ==
  \A r \in Readers :
    /\ (Registered(r) /\ ~Registered(r)') => (cpc[r] = "drop" /\ cpc'[r] = "unlock")
    /\ c2pc'[r] # c2pc[r] =>
         /\ BufferNumReaders' = BufferNumReaders
         /\ UNCHANGED <<heap, boff, buf, mem, ncb, cpc, cbdefer, panicked>>

C11_CloseIdempotent == [](C11_Inv) /\ [][C11_Step]_vars

\* a second Close has returned on a reader whose first Close invoked the
\* callback, and the other reader is still registered
C11_Witness ==
  \E r, q \in Readers :
    /\ c2pc[r] = "done" /\ cbdefer[r] /\ ncb = 1
    /\ q # r /\ Registered(q)

\* ---------------------------------------------------------------- C12
\* C12: NumReaders() is the number of readers made whose first Close has not
\* yet removed them; making a reader raises it by one, the drop of a first
\* Close lowers it by one, and every other step leaves it as it is.
C12_Inv ==
  BufferNumReaders =
    Cardinality({r \in Readers : kind[r] # "none" /\ cpc[r] \in {"idle", "drop"}})

C12_Step ==
  /\ \A r \in Readers :
       (kind[r] = "none" /\ kind'[r] # "none")
         => BufferNumReaders' = BufferNumReaders + 1
  /\ \A r \in Readers :
       (cpc[r] = "drop" /\ cpc'[r] # "drop")
         => BufferNumReaders' = BufferNumReaders - 1
  /\ (kind' = kind /\ \A r \in Readers : cpc[r] = "drop" => cpc'[r] = "drop")
       => BufferNumReaders' = BufferNumReaders

C12_NumReaders == [](C12_Inv) /\ [][C12_Step]_vars

\* one reader is closed, the other one is counted, after writes, reads and
\* the Close of the buffer
C12_Witness ==
  \E r, q \in Readers :
    /\ cpc[r] = "done" /\ kind[q] # "none" /\ cpc[q] = "idle"
    /\ BufferNumReaders = 1
    /\ stream # <<>> /\ got[q] # <<>> /\ ~Alive(bstate)

\* ---------------------------------------------------------------- C13
\* C13: the callback is invoked only by a closing reader, once per
\* invocation; the drop of a Close owes an invocation exactly when a callback
\* is registered and it takes NumReaders from 1 to 0, every time that
\* happens; the invocations made are those owed by the Closes that have
\* returned; registering the callback invokes nothing.
C13_Inv ==
  ncb = Cardinality({r \in Readers : cbdefer[r] /\ cpc[r] = "done"})

C13_Step ==
  /\ ncb' # ncb =>
       /\ ncb' = ncb + 1
       /\ \E r \in Readers : cpc[r] = "cb" /\ cpc'[r] = "done"
  /\ \A r \in Readers :
       (cpc[r] = "drop" /\ cpc'[r] # "drop") =>
         (cbdefer'[r] <=> (/\ callback # "nil"
                           /\ BufferNumReaders = 1
                           /\ BufferNumReaders' = 0))
  /\ \A r \in Readers :
       (cpc[r] = "unlock" /\ cpc'[r] # "unlock") =>
         cpc'[r] = IF cbdefer[r] THEN "cb" ELSE "done"
  /\ callback' # callback => UNCHANGED <<ncb, cpc, cbdefer>>

C13_LastReaderCallback == [](C13_Inv) /\ [][C13_Step]_vars

\* the count went from 1 to 0 twice and the callback ran both times
C13_Witness ==
  /\ ncb = 2 /\ callback = "note"
  /\ \A r \in Readers : cpc[r] = "done" /\ cbdefer[r]

\* ---------------------------------------------------------------- C14
\* C14: a Close that is about to invoke the callback does not hold b.mu, and
\* it returns only with the callback invoked; it always comes to return, also
\* when the callback is Buffer.Close, and then a Write that waits for space
\* comes to return ErrClosedPipe.
C14_Inv == \A r \in Readers : cpc[r] = "cb" => r \notin mu

C14_Step ==
  \A r \in Readers :
    (cbdefer[r] /\ cpc[r] # "done" /\ cpc'[r] = "done") => ncb' = ncb + 1

C14_CallbackOutsideLock ==
  /\ [](C14_Inv)
  /\ [][C14_Step]_vars
  /\ \A r \in Readers : (cpc[r] = "cb") ~> (cpc[r] = "done")
  /\ \A w \in Writers :
       (/\ callback = "close" /\ wpc[w] = "wait"
        /\ \E r \in Readers : cbdefer[r] /\ cpc[r] # "done")
         ~> (wpc[w] = "idle" /\ wret[w].err = ErrClosedPipe)

\* the callback, not a Close of the caller, has cut a waiting Write short
C14_Witness ==
  \E w \in Writers :
    /\ callback = "close" /\ ncb = 1 /\ kpc = "idle"
    /\ wret[w].err = ErrClosedPipe /\ wret[w].n > 0
    /\ Len(stream) < nsub

\* ---------------------------------------------------------------- C15
\* C15: the bytes that a Write call appends form one contiguous run of the
\* stream: while a Write is part-way through its input, waiting for space,
\* whatever is appended to the stream is the next bytes of that same call.
C15_Step ==
  \A w \in Writers :
    (wpc[w] = "wait" /\ wn[w] > 0 /\ stream' # stream) =>
      \E k \in wn[w] + 1 .. Len(wp[w]) :
        stream' = stream \o SubSeq(wp[w], wn[w] + 1, k)

C15_NoInterleave == [][C15_Step]_vars

\* ---------------------------------------------------------------- C16
\* C16: on a buffer without capacity bound a live reader waits in fetch only
\* when it has read every byte that lies at or after its position, whatever
\* the offsets of the other readers are; a Read of a live reader that has
\* such a byte before it does not park, and its r.data.Read(p) hands it at
\* least one byte.
C16_Inv ==
  \A r \in Readers :
    /\ (r \in rwait /\ Alive(rstate[r]) /\ Alive(bstate)) => got[r] = Due(r)
    /\ (rpc[r] = "rd" /\ Alive(rstate[r]) /\ Len(got[r]) < Len(Due(r)))
         => RingLen(rdata[r], mem) > 0

C16_Step ==
  \A r \in Readers :
    (Alive(rstate[r]) /\ Len(got[r]) < Len(Due(r))) =>
      /\ (rpc[r] = "idle" /\ rpc'[r] # "idle") => rpc'[r] \in {"rd", "ck"}
      /\ (rpc[r] \in {"idle", "rd"} /\ rpc'[r] \in {"idle", "ck"}
            /\ <<rpc[r], rret[r], got[r]>> # <<rpc'[r], rret'[r], got'[r]>>)
           => Len(got'[r]) > Len(got[r])

C16_IndependentProgress == bcap = 0 /\ [](C16_Inv) /\ [][C16_Step]_vars

\* one reader has read the whole stream while the other one, there from the
\* start, has not read a byte and has never entered fetch
C16_Witness ==
  \E r, q \in Readers :
    /\ bcap = 0 /\ Alive(bstate) /\ Len(stream) = MaxBytes
    /\ kind[r] = "next" /\ kind[q] = "next"
    /\ join[r].written = 0 /\ join[q].written = 0
    /\ Alive(rstate[r]) /\ Alive(rstate[q])
    /\ got[r] = stream /\ got[q] = <<>> /\ roff[q] = 0 /\ rpc[q] = "idle"
    /\ rpc[r] = "idle" /\ rret[r] = NoErr

\* ---------------------------------------------------------------- C17
\* C17: a step that appends to the stream leaves no reader parked, and a
\* live reader parked on an open buffer has its offset at the end of the
\* store; a Read that waits in fetch with a byte written at or after its
\* position comes to return with that byte, unless its reader is closed
\* first.
C17_Inv ==
  \A r \in Readers :
    (r \in rwait /\ Alive(rstate[r]) /\ Alive(bstate))
      => (rpc[r] = "fw" /\ roff[r] = boff + RingLen(buf, mem))

C17_Step == stream' # stream => rwait' = {}

C17_WriteWakesReaders ==
  /\ [](C17_Inv)
  /\ [][C17_Step]_vars
  /\ \A r \in Readers : \A k \in 0..LiveBytes :
       (rpc[r] = "fw" /\ Len(got[r]) = k /\ Len(Due(r)) > k)
         ~> (~Alive(rstate[r]) \/ (rpc[r] = "idle" /\ Len(got[r]) > k))

\* a parked Read that only the Write can have woken: no Close of a reader or
\* of the buffer was called, and the byte is there for it
C17_Witness ==
  \E r \in Readers :
    /\ rpc[r] = "fw" /\ r \notin rwait
    /\ Alive(bstate) /\ kpc = "idle" /\ \A q \in Readers : cpc[q] = "idle"
    /\ got[r] = <<>> /\ Len(Due(r)) = LiveBytes

\* ---------------------------------------------------------------- C18
\* what snapshot r has yielded and what it still holds make up what the
\* store retained when r was taken
SnapshotIntact(r) == got[r] \o RingBytes(rdata[r], mem) = join[r].retained

\* C18 as stated: a snapshot yields the bytes retained when it was taken,
\* whatever Write and Discard calls are made on the store afterwards.
C18_Original == \A r \in Readers : kind[r] = "snap" => SnapshotIntact(r)

\* C18: a snapshot yields the bytes retained when it was taken, whatever
\* Write calls are made on the store afterwards, wrapping or growing, as long
\* as every Discard on the store drops only retained bytes that all the
\* snapshots taken have already read.
C18_SnapshotIsolation ==
  kept => \A r \in Readers : kind[r] = "snap" => SnapshotIntact(r)

\* the store has dropped a byte the snapshot had read and has written a new
\* byte into that cell of the shared array, while the snapshot still holds
\* an unread byte
C18_Witness ==
  \E r \in Readers :
    /\ kept /\ kind[r] = "snap"
    /\ buf.data = rdata[r].data
    /\ Len(stream) > join[r].written
    /\ boff > join[r].written - Len(join[r].retained)
    /\ got[r] # <<>> /\ RingLen(rdata[r], mem) > 0
    /\ buf.off <= buf.roff /\ ~buf.empty

\* ---------------------------------------------------------------- C19
\* C19: a Discard(s) does not fail; it returns the number of bytes it
\* dropped, which is s or, if fewer bytes were there, all of them; Len()
\* goes down by that number; and it reports io.EOF exactly when no byte is
\* left.
C19_DiscardContract ==
  /\ ~panicked
  /\ dret.s > 0 =>
       /\ dret.n = Min(dret.s, dret.before)
       /\ dret.after = dret.before - dret.n
       /\ dret.err = EOF <=> dret.after = 0

\* ---------------------------------------------------------------- C20
\* C20: whenever at least one reader is registered, the discard offset b.off
\* is the least read offset r.off of the registered readers.
C20_EvictionInvariant ==
  (~panicked /\ HeapLen(heap) > 0) =>
    /\ \E r \in Readers : Registered(r) /\ roff[r] = boff
    /\ \A r \in Readers : Registered(r) => boff <= roff[r]

\* ---------------------------------------------------------------- C21
\* b.off + b.buf.Len(): the offset at which the next byte is appended
WriteOffset == boff + RingLen(buf, mem)

\* C21: every registered reader has b.off <= r.off <= write offset, and
\* neither the offset of a reader, nor b.off, nor the write offset ever
\* decreases.
C21_Inv ==
  \A r \in Readers : Registered(r) => (boff <= roff[r] /\ roff[r] <= WriteOffset)

C21_Step ==
  /\ \A r \in Readers : kind[r] # "none" => roff'[r] >= roff[r]
  /\ boff' >= boff
  /\ WriteOffset' >= WriteOffset

C21_OffsetBounds == [](C21_Inv) /\ [][C21_Step]_vars

\* a reader strictly between the discard offset, where the other reader
\* is, and the write offset
C21_Witness ==
  \E r, q \in Readers :
    /\ Registered(r) /\ Alive(rstate[r]) /\ Registered(q)
    /\ roff[q] = boff /\ boff < roff[r] /\ roff[r] < WriteOffset

\* ---------------------------------------------------------------- C22
\* C22: while readers are registered, none of them being closed, the store
\* retains exactly the bytes from the least registered offset up to the end
\* of what was written; and when the buffer is closed and every one of them
\* has had io.EOF from its last Read, the store retains nothing.
C22_NoLeftovers ==
  (/\ ~panicked /\ HeapLen(heap) > 0
   /\ \A r \in Readers : Registered(r) => Alive(rstate[r])) =>
    /\ \E r \in Readers :
         /\ Registered(r)
         /\ \A q \in Readers : Registered(q) => roff[r] <= roff[q]
         /\ RingLen(buf, mem) = Len(stream) - roff[r]
    /\ (/\ ~Alive(bstate)
        /\ \A r \in Readers : Registered(r) => (rpc[r] = "idle" /\ rret[r] = EOF))
         => RingLen(buf, mem) = 0

\* ---------------------------------------------------------------- C23
\* C23: as long as no Discard(s) had s > Len(), the store holds the bytes
\* written and not yet read or discarded, in the order written, and Len() is
\* their number; a Read(p) returns the first min(len(p), Len()) of them and
\* removes them.
C23_Inv ==
  inb => /\ ~panicked
         /\ boff <= Len(stream)
         /\ RingBytes(buf, mem) = SubSeq(stream, boff + 1, Len(stream))
         /\ RingLen(buf, mem) = Len(stream) - boff

C23_Step ==
  (inb /\ sread'.tick # sread.tick) =>
    /\ sread'.n = Min(sread'.k, RingLen(buf, mem))
    /\ sread'.bytes = SubSeq(stream, boff + 1, boff + sread'.n)
    /\ boff' = boff + sread'.n
    /\ stream' = stream

StartOffset(r) ==
  IF kind[r] = "next" THEN join[r].written - Len(join[r].retained)
  ELSE join[r].written

\* C24: a step in which a Read takes bytes out of the snapshot of r leaves
\* r.off, the heap, b.off and the store as they are, so that r.off stays
\* behind the position of r by what r has taken from its snapshot; r.off
\* moves only in a fetch of r, entered with the snapshot exhausted, and then
\* by r.size.
C24_Inv ==
  \A r \in Readers :
    (Registered(r) /\ Alive(rstate[r])) =>
      roff[r] + rsize[r] - RingLen(rdata[r], mem) = StartOffset(r) + Len(got[r])

C24_Step ==
  \A r \in Readers :
    /\ got'[r] # got[r] => UNCHANGED <<roff, heap, boff, buf, mem>>
    /\ (kind[r] # "none" /\ roff'[r] # roff[r]) =>
         /\ roff'[r] = roff[r] + rsize[r]
         /\ rpc[r] \in {"idle", "ck"} /\ RingLen(rdata[r], mem) = 0
         /\ Alive(rstate[r])

Mutates ==
  \/ stream' # stream
  \/ boff' # boff
  \/ bstate' # bstate
  \/ HeapLen(heap') < HeapLen(heap)

\* C25 as stated: each of these steps broadcasts on b.rwait and on b.wwait,
\* so that no goroutine parked before the step is parked after it.
C25_OriginalStep == Mutates => (rwait \cap rwait' = {} /\ wwait \cap wwait' = {})

C25_Original == [][C25_OriginalStep]_vars

\* C25: a Write that appends broadcasts on b.rwait, an eviction on b.wwait,
\* a Close of the buffer on both, and the removal of a reader on b.rwait.
C25_Step ==
  /\ stream' # stream => rwait \cap rwait' = {}
  /\ boff' # boff => wwait \cap wwait' = {}
  /\ bstate' # bstate => (rwait \cap rwait' = {} /\ wwait \cap wwait' = {})
  /\ HeapLen(heap') < HeapLen(heap) => rwait \cap rwait' = {}

C25_SignalsWaiters == [][C25_Step]_vars

\* an eviction has woken the Write that waited for space, and a Read that
\* waits for data is still parked: nothing else can have woken the Write
C25_Witness ==
  \E w \in Writers, r \in Readers :
    /\ wpc[w] = "wait" /\ w \notin wwait
    /\ r \in rwait /\ Alive(rstate[r])
    /\ Alive(bstate) /\ kpc = "idle" /\ \A q \in Readers : cpc[q] = "idle"

\* ---------------------------------------------------------------- C26
\* C26: every Discard(n) that shift issues on the store, and that fetch and
\* NextReaderFromNow issue on a fresh snapshot, has 0 <= n <= Len() of its
\* target, and none of them divides by a zero capacity.
C26_DiscardInBounds == inb /\ ~panicked

\* shift has evicted bytes and NextReaderFromNow has skipped retained bytes
C26_Witness ==
  /\ inb /\ boff > 0
  /\ \E q \in Readers : kind[q] = "now" /\ Registered(q) /\ join[q].retained # <<>>

\* ---------------------------------------------------------------- C27
\* the number of bytes appended before the one reader r reads next
Position(r) == StartOffset(r) + Len(got[r])

C28_NoEmptyRead == nzread

\* after Buffer.Close one reader got bytes and a nil error from a Read, and
\* another, whose Close was called, got io.EOF from a Read without a byte
C28_Witness ==
  /\ nzread /\ ~Alive(bstate)
  /\ \E r, q \in Readers :
       /\ rpc[r] = "idle" /\ rret[r] = NoErr /\ got[r] # <<>>
       /\ rpc[q] = "idle" /\ rret[q] = EOF /\ got[q] = <<>> /\ ~Alive(rstate[q])

\* ---------------------------------------------------------------- C29
\* C29 as stated: when the deferred callback of a Close starts, NumReaders()
\* is 0.
C29_OriginalStep ==
  \A r \in Readers :
    (cpc[r] = "cb" /\ cpc'[r] = "done") => BufferNumReaders = 0

C29_Original == [][C29_OriginalStep]_vars

\* C29: NumReaders() is 0 from the moment the drop of a Close defers the
\* callback until it has released b.mu; between that release and the start
\* of the callback only a NextReader can make it positive again.
C29_Inv ==
  \A r \in Readers :
    (cpc[r] = "unlock" /\ cbdefer[r]) => (BufferNumReaders = 0 /\ mu = {r})

C29_Step ==
  \A r \in Readers :
    /\ (cpc[r] = "unlock" /\ cpc'[r] = "cb") => BufferNumReaders' = 0
    /\ (cpc[r] = "cb" /\ BufferNumReaders' > BufferNumReaders) =>
         \E q \in Readers :
           /\ NextSlot(q) /\ kind'[q] = "next"
           /\ BufferNumReaders' = BufferNumReaders + 1

C29_ZeroAtUnlock == [](C29_Inv) /\ [][C29_Step]_vars

\* a Close is about to start the callback and a NextReader has come between
C29_Witness ==
  \E r, q \in Readers :
    /\ cpc[r] = "cb" /\ cbdefer[r]
    /\ Registered(q) /\ BufferNumReaders = 1

\* ---------------------------------------------------------------- C30
\* a Write is parked for space and every reader that NumReaders() counts,
\* of which there is one, is parked for data
Stalled ==
  /\ wwait # {}
  /\ BufferNumReaders > 0
  /\ \A r \in Readers : Registered(r) => r \in rwait

\* every reader made so far has had its Close called or has got io.EOF
AllDone ==
  \A r \in Readers :
    kind[r] # "none" => (~Alive(rstate[r]) \/ (rpc[r] = "idle" /\ rret[r] = EOF))

\* C30 as stated: once there is a reader, in the end every Write has
\* returned and every reader has come to its Close or to io.EOF, and no
\* Write waits for space while every live reader waits for data.
C30_Original ==
  /\ [](~Stalled)
  /\ <>[]((\E r \in Readers : kind[r] # "none") =>
            (AllDone /\ \A w \in Writers : wpc[w] # "wait"))

\* a Write parked for space finds the store full and the buffer open, and a
\* reader is registered that is not parked for data
C30_Inv ==
  \A w \in wwait :
    /\ wpc[w] = "wait" /\ Alive(bstate) /\ RingLen(buf, mem) = bcap
    /\ BufferNumReaders > 0 => \E r \in Readers : Registered(r) /\ r \notin rwait

\* C30: while a reader is registered no Write waits for space with every
\* registered reader waiting for data; in the end every reader has come to
\* its Close or to io.EOF, and every Write has returned unless no reader is
\* left registered.
C30_NoDeadlock ==
  /\ [](C30_Inv)
  /\ <>[](/\ AllDone
          /\ (\A w \in Writers : wpc[w] # "wait") \/ BufferNumReaders = 0)

\* the Write had waited for space, the writer has closed the buffer with
\* every byte written, and a reader that stayed has read them all to io.EOF
C30_Witness ==
  /\ kpc = "done" /\ Len(stream) = quota /\ Len(stream) > bcap
  /\ \E r \in Readers :
       /\ Alive(rstate[r]) /\ rpc[r] = "idle" /\ rret[r] = EOF /\ got[r] = stream
  /\ \E w \in Writers : wret[w] = [n |-> MaxBytes, err |-> NoErr]

\* ---------------------------------------------------------------- C31
\* what a Read of r can change
ReadVarsOf(r) == <<rpc[r], rphase[r], rn[r], rret[r], got[r], rdata[r], rsize[r]>>

\* C31: b.rh holds, once each, the readers made and not yet dropped; every
\* reader in it has its own slot in r.i; no reader is ahead of its parent in
\* offset and Peek() is a reader of least offset.  A reader that is alive,
\* or whose drop is still to come, is in b.rh at r.i, so that the heap.Fix
\* of fetch and the heap.Remove of drop get a good index; a Read of a reader
\* whose Close was called leaves b.rh as it is.
C31_Inv ==
  /\ Range(heap.rh) =
       {r \in Readers : kind[r] # "none" /\ cpc[r] \in {"idle", "drop"}}
  /\ Cardinality(Range(heap.rh)) = HeapLen(heap)
  /\ \A i \in 1..HeapLen(heap) : heap.ri[heap.rh[i]] = i - 1
  /\ \A i \in 2..HeapLen(heap) : roff[heap.rh[i \div 2]] <= roff[heap.rh[i]]
  /\ HeapLen(heap) > 0 =>
       \A r \in Range(heap.rh) : roff[HeapPeek(heap)] <= roff[r]

C31_Step ==
  \A r \in Readers :
    (~Alive(rstate[r]) /\ ReadVarsOf(r)' # ReadVarsOf(r)) => heap' = heap

C31_HeapWellFormed == [](C31_Inv) /\ [][C31_Step]_vars

\* a fetch has moved the first reader past the second and heap.Fix has
\* swapped them
C31_Witness ==
  /\ heap.rh = <<2, 1>> /\ roff[2] < roff[1]
  /\ heap.ri = [r \in Readers |-> 2 - r]

====
